---- MODULE Spec2Model ----
(***************************************************************************)
(* The BuildGraph command (class Build) of AutomationTool: Execute,        *)
(* BuildAllNodes and BuildSingleNode, run against a Graph and a            *)
(* TempStorage.  Under Spec one run of Execute is one behaviour: the       *)
(* initial state is the parsed command line, the graph read from the       *)
(* script and the contents of the local and shared storage left by earlier *)
(* runs.  Under Distributed a behaviour is a run of Execute followed by    *)
(* the runs with -SingleNode that a scheduler starts on the build farm.    *)
(***************************************************************************)
EXTENDS Integers, FiniteSets, Sequences, TLC

(***************************************************************************)
(* Bounds on the command line.                                             *)
(***************************************************************************)
MaxTargets == 1
MaxTriggerArgs == 1
MaxCleanNodes == 1
MaxTaskClasses == 2

(***************************************************************************)
(* The graph universe: three nodes in flattened order, Compile with two    *)
(* output tags, and three triggers, Release being a child of QA.           *)
(***************************************************************************)
NodeOrder == <<"Compile", "Package", "Publish">>
AllNodes == {NodeOrder[i] : i \in 1..Len(NodeOrder)}
NoNode == "null"

OutputNames ==
    [n \in AllNodes |->
        CASE n = "Compile" -> <<"Binaries", "Symbols">>
          [] n = "Package" -> <<"Archive">>
          [] OTHER         -> <<"Published">>]

Range(s) == {s[i] : i \in 1..Len(s)}

AllTags == UNION {Range(OutputNames[n]) : n \in AllNodes}

OutputNameToNode == [t \in AllTags |-> CHOOSE n \in AllNodes : t \in Range(OutputNames[n])]

PositionOf(n) == CHOOSE i \in 1..Len(NodeOrder) : NodeOrder[i] = n

NoTrigger == "null"
Parent == [t \in {"QA", "Release", "Nightly"} |-> IF t = "Release" THEN "QA" ELSE NoTrigger]
NameToTrigger == DOMAIN Parent

Files == {"a.obj", "b.obj"}

LocalRoot == "LocalRoot"


VARIABLES
    Groups,             \* Graph.Groups: the agent groups, each a sequence of nodes
    NameToNode,         \* Graph.NameToNode: the names of the nodes in the graph
    InputNames,         \* Node.InputNames of every node, a sequence of tag names
    ControllingTrigger, \* Node.ControllingTrigger of every node, or NoTrigger
    Behaviour,          \* what Node.Build of every node does when invoked
    Storage,            \* the TempStorage: local and shared tier
    Args,               \* the parsed command line, and whether on a build machine
    pc,                 \* position in Execute / BuildAllNodes / BuildSingleNode
    TargetNodes,        \* Execute: the resolved targets
    Triggers,           \* Execute: the active triggers
    SingleNode,         \* Execute: the node named by -SingleNode, or NoNode
    ExitCode,           \* what Execute returns
    Error,              \* the error logged or thrown, if any
    NodesToExecute,     \* BuildAllNodes: the flattened node list
    CleanedNodes,       \* BuildAllNodes: the nodes cleaned by the integrity pass
    NodeIdx,            \* BuildAllNodes: position in NodesToExecute
    Caller,             \* who called BuildSingleNode
    Node,               \* BuildSingleNode: the node being built
    TagNameToFileSet,   \* BuildSingleNode: tag name -> file set, or Unset
    ReferencedOutputs,  \* BuildSingleNode: tags that must go to shared storage
    OutputIdx,          \* BuildSingleNode: position in Node.OutputNames
    Printed,            \* Graph.Print: whether called, and with which completed nodes
    Exported,           \* Graph.Export: whether called, and with which arguments
    BuildLog,           \* history: the nodes whose Node.Build was invoked, in order
    ArchiveLog,         \* history: the Archive calls made, in order
    Marked,             \* history: the nodes marked complete by this run
    StorageAtRun,       \* history: the storage when BuildAllNodes/BuildSingleNode was called
    InputLog,           \* history: the input tags handed to each Node.Build, in order
    StorageAtEntry,     \* history: the storage when Execute was entered
    FileToOutputName,   \* FindFileToOutputNameMapping: the file -> output name dictionary
    bMappingResult,     \* FindFileToOutputNameMapping: its bResult
    FileToOutputNameAtCall, \* history: the dictionary handed to FindFileToOutputNameMapping
    Farm                \* the build farm: the agents' workspaces and the scheduler

vars == <<Groups, NameToNode, InputNames, ControllingTrigger, Behaviour, Storage, Args,
          pc, TargetNodes, Triggers, SingleNode, ExitCode, Error,
          NodesToExecute, CleanedNodes, NodeIdx,
          Caller, Node, TagNameToFileSet, ReferencedOutputs, OutputIdx,
          Printed, Exported, BuildLog, ArchiveLog, Marked, StorageAtRun, InputLog,
          StorageAtEntry, FileToOutputName, bMappingResult, FileToOutputNameAtCall, Farm>>

(***************************************************************************)
(* Graph.                                                                  *)
(***************************************************************************)
RECURSIVE Flatten(_)
Flatten(groups) ==
    IF groups = <<>> THEN <<>> ELSE Head(groups) \o Flatten(Tail(groups))

RECURSIVE Where(_, _)
Where(s, keep) ==
    IF s = <<>> THEN <<>>
    ELSE IF Head(s) \in keep THEN <<Head(s)>> \o Where(Tail(s), keep)
    ELSE Where(Tail(s), keep)

RECURSIVE RemoveEmpty(_)
RemoveEmpty(groups) ==
    IF groups = <<>> THEN <<>>
    ELSE IF Head(groups) = <<>> THEN RemoveEmpty(Tail(groups))
    ELSE <<Head(groups)>> \o RemoveEmpty(Tail(groups))

\* Node.InputDependencies: the nodes producing a tag the node consumes.
InputDependencies(n) == {OutputNameToNode[t] : t \in Range(InputNames[n])}

RECURSIVE DependencyClosure(_)
DependencyClosure(S) ==
    LET more == S \cup UNION {InputDependencies(n) : n \in S}
    IN  IF more = S THEN S ELSE DependencyClosure(more)

\* Graph.TryResolveReference: a node name, or a tag name standing for its producer.
TryResolveReference(name) ==
    IF name \in NameToNode THEN [Ok |-> TRUE, Nodes |-> {name}]
    ELSE IF name \in AllTags /\ OutputNameToNode[name] \in NameToNode
         THEN [Ok |-> TRUE, Nodes |-> {OutputNameToNode[name]}]
    ELSE [Ok |-> FALSE, Nodes |-> {}]

\* Graph.Select: the groups and the node index after culling to the targets.
SelectRetained(targets) == DependencyClosure(targets) \cap NameToNode

SelectGroups(targets) ==
    RemoveEmpty([g \in 1..Len(Groups) |-> Where(Groups[g], SelectRetained(targets))])

(***************************************************************************)
(* TempStorage.  A storage value S holds the completion markers and the    *)
(* local manifests, the shared manifests, and the tags whose recorded      *)
(* files were changed on disk since they were archived.                    *)
(***************************************************************************)
Put(f, k, v) == [x \in (DOMAIN f) \cup {k} |-> IF x = k THEN v ELSE f[x]]
Drop(f, ks) == [x \in (DOMAIN f) \ ks |-> f[x]]

OutputKeys(n) == {<<n, o>> : o \in AllTags}

IsComplete(S, n) == n \in S.Complete

MarkAsComplete(S, n) == [S EXCEPT !.Complete = @ \cup {n}]

CheckLocalIntegrity(S, n, outputNames) ==
    \A i \in 1..Len(outputNames) :
        /\ <<n, outputNames[i]>> \in DOMAIN S.Local
        /\ <<n, outputNames[i]>> \notin S.Modified

CleanLocalNode(S, n) ==
    [S EXCEPT !.Complete = @ \ {n},
              !.Local = Drop(@, OutputKeys(n)),
              !.Modified = @ \ OutputKeys(n)]

CleanLocal(S) ==
    [S EXCEPT !.Complete = {}, !.Local = Drop(@, DOMAIN @), !.Modified = {}]

\* Retreive: the manifest, fetched into the local cache when only shared has it.
Retreive(S, n, o) ==
    IF <<n, o>> \in DOMAIN S.Local
    THEN [Found |-> TRUE, Manifest |-> S.Local[<<n, o>>], Storage |-> S]
    ELSE IF S.SharedDir /\ <<n, o>> \in DOMAIN S.Shared
    THEN [Found |-> TRUE, Manifest |-> S.Shared[<<n, o>>],
          Storage |-> [S EXCEPT !.Local = Put(@, <<n, o>>, S.Shared[<<n, o>>])]]
    ELSE [Found |-> FALSE, Manifest |-> {}, Storage |-> S]

\* A FileReference under the root, and the path of a file relative to the root.
ToFileReference(rel) == [Root |-> LocalRoot, Rel |-> rel]
MakeRelativeTo(file) == file.Rel

Archive(S, n, o, files, mustPushToShared) ==
    LET manifest == {MakeRelativeTo(f) : f \in files}
        local == [S EXCEPT !.Local = Put(@, <<n, o>>, manifest),
                           !.Modified = @ \ {<<n, o>>}]
    IN  IF mustPushToShared /\ S.SharedDir /\ S.bWriteToSharedStorage
        THEN [local EXCEPT !.Shared = Put(@, <<n, o>>, manifest)]
        ELSE local


(***************************************************************************)
(* Execute.                                                                *)
(***************************************************************************)
Null == [IsNull |-> TRUE, Files |-> {}]
FileSet(files) == [IsNull |-> FALSE, Files |-> files]
NotPrinted == [Called |-> FALSE, CompletedNodes |-> {}]
NotExported == [Called |-> FALSE, Groups |-> <<>>, Triggers |-> {}, CompletedNodes |-> {}]

graphVars == <<Groups, NameToNode>>
nodeVars == <<InputNames, ControllingTrigger, Behaviour>>
allNodesVars == <<NodesToExecute, CleanedNodes, NodeIdx>>
singleNodeVars == <<Caller, Node, TagNameToFileSet, ReferencedOutputs, OutputIdx>>
outputVars == <<Printed, Exported>>
mappingVars == <<FileToOutputName, bMappingResult, FileToOutputNameAtCall>>
historyVars == <<BuildLog, ArchiveLog, Marked, StorageAtRun, InputLog, StorageAtEntry>>

NoStorage ==
    [Complete |-> {}, Local |-> <<>>, Modified |-> {}, Shared |-> <<>>,
     SharedDir |-> FALSE, bWriteToSharedStorage |-> FALSE]

\* Execute returns: the exit code, and the error that was logged.
Return(code, error) ==
    /\ pc' = "Done"
    /\ ExitCode' = code
    /\ Error' = error

\* An exception leaves Execute: it returns no exit code.
Throw(error) ==
    /\ pc' = "Done"
    /\ ExitCode' = "Exception"
    /\ Error' = error

Continue(next) ==
    /\ pc' = next
    /\ UNCHANGED <<ExitCode, Error>>

RECURSIVE CleanLocalNodes(_, _)
CleanLocalNodes(S, names) ==
    IF names = {} THEN S
    ELSE LET n == CHOOSE x \in names : TRUE
         IN  CleanLocalNodes(CleanLocalNode(S, n), names \ {n})

\* ParseParamValue: the value of a parameter of the command line, or null.
NoParam == "null"
ParseParamValue(args, name) == IF name \in args.Params THEN name ELSE NoParam

\* Mutant: Execute goes on without a -Target parameter.
ParseParams_TargetOptional ==
    /\ pc = "ParseParams"
    /\ IF ParseParamValue(Args, "Script") = NoParam
       THEN Return("Error_Unknown", "MissingScript")
       ELSE Continue("FindAvailableTasks")
    /\ UNCHANGED <<graphVars, nodeVars, Farm, mappingVars, Storage, Args, TargetNodes, Triggers, SingleNode,
                   allNodesVars, singleNodeVars, outputVars, historyVars>>

\* Parse the command line parameters.
ParseParams ==
    /\ pc = "ParseParams"
    /\ IF ParseParamValue(Args, "Script") = NoParam
       THEN Return("Error_Unknown", "MissingScript")
       ELSE IF ParseParamValue(Args, "Target") = NoParam
       THEN Return("Error_Unknown", "MissingTarget")
       ELSE Continue("FindAvailableTasks")
    /\ UNCHANGED <<graphVars, nodeVars, Farm, mappingVars, Storage, Args, TargetNodes, Triggers, SingleNode,
                   allNodesVars, singleNodeVars, outputVars, historyVars>>

\* FindAvailableTasks: go through the classes with a TaskElementAttribute in
\* the loaded assemblies, from position i on, adding to NameToTask.
RECURSIVE FindAvailableTasksFrom(_, _, _)
FindAvailableTasksFrom(classes, NameToTask, i) ==
    IF i > Len(classes) THEN [Ok |-> TRUE, Error |-> "None"]
    ELSE IF ~classes[i].IsCustomTask THEN [Ok |-> FALSE, Error |-> "NotATask"]
    ELSE IF classes[i].Name \in NameToTask THEN [Ok |-> FALSE, Error |-> "MultipleHandlers"]
    ELSE FindAvailableTasksFrom(classes, NameToTask \cup {classes[i].Name}, i + 1)

\* The classes of the assemblies FindAvailableTasks looks into.
RECURSIVE LoadedClasses(_, _)
LoadedClasses(classes, bPublicTasksOnly) ==
    IF classes = <<>> THEN <<>>
    ELSE IF bPublicTasksOnly /\ ~Head(classes).IsPublicAssembly
         THEN LoadedClasses(Tail(classes), bPublicTasksOnly)
    ELSE <<Head(classes)>> \o LoadedClasses(Tail(classes), bPublicTasksOnly)

FindAvailableTasks(classes, bPublicTasksOnly) ==
    FindAvailableTasksFrom(LoadedClasses(classes, bPublicTasksOnly), {}, 1)

\* Find all the tasks from the loaded assemblies.
FindTasks ==
    /\ pc = "FindAvailableTasks"
    /\ LET found == FindAvailableTasks(Args.TaskClasses, Args.bPublicTasksOnly)
       IN  IF ~found.Ok THEN Return("Error_Unknown", found.Error)
           ELSE Continue("ReadScript")
    /\ UNCHANGED <<graphVars, nodeVars, Farm, mappingVars, Storage, Args, TargetNodes, Triggers, SingleNode,
                   allNodesVars, singleNodeVars, outputVars, historyVars>>

\* Read the script from disk.
ReadScript ==
    /\ pc = "ReadScript"
    /\ IF ~Args.bScriptReads THEN Return("Error_Unknown", "ScriptError")
       ELSE Continue("CreateStorage")
    /\ UNCHANGED <<graphVars, nodeVars, Farm, mappingVars, Storage, Args, TargetNodes, Triggers, SingleNode,
                   allNodesVars, singleNodeVars, outputVars, historyVars>>

\* Mutant: the nodes named by -CleanNode are not cleaned.
CreateStorage_CleanNodesIgnored ==
    /\ pc = "CreateStorage"
    /\ Storage' = IF Args.bClean THEN CleanLocal(Storage) ELSE Storage
    /\ Continue("ResolveTargets")
    /\ UNCHANGED <<graphVars, nodeVars, Farm, mappingVars, Args, TargetNodes, Triggers, SingleNode,
                   allNodesVars, singleNodeVars, outputVars, historyVars>>

\* Mutant: the clean requests are applied only once the target and trigger
\* names are known to resolve.
CreateStorage_CleansOnceResolved ==
    /\ pc = "CreateStorage"
    /\ Storage' =
          IF /\ \A name \in Args.TargetNames : TryResolveReference(name).Ok
             /\ Args.TriggerNames \subseteq NameToTrigger
          THEN CleanLocalNodes(IF Args.bClean THEN CleanLocal(Storage) ELSE Storage,
                               Args.CleanNodes)
          ELSE Storage
    /\ Continue("ResolveTargets")
    /\ UNCHANGED <<graphVars, nodeVars, Farm, mappingVars, Args, TargetNodes, Triggers, SingleNode,
                   allNodesVars, singleNodeVars, outputVars, historyVars>>

\* Create the temp storage handler, and clean what -Clean and -CleanNode name.
CreateStorage ==
    /\ pc = "CreateStorage"
    /\ Storage' = CleanLocalNodes(IF Args.bClean THEN CleanLocal(Storage) ELSE Storage,
                                  Args.CleanNodes)
    /\ Continue("ResolveTargets")
    /\ UNCHANGED <<graphVars, nodeVars, Farm, mappingVars, Args, TargetNodes, Triggers, SingleNode,
                   allNodesVars, singleNodeVars, outputVars, historyVars>>

\* Convert the supplied target references into nodes.
ResolvedTargets(names) == UNION {TryResolveReference(name).Nodes : name \in names}

ResolveTargets ==
    /\ pc = "ResolveTargets"
    /\ IF \E name \in Args.TargetNames : ~TryResolveReference(name).Ok
       THEN /\ Return("Error_Unknown", "UnknownTarget")
            /\ UNCHANGED TargetNodes
       ELSE /\ TargetNodes' = ResolvedTargets(Args.TargetNames)
            /\ Continue("Select")
    /\ UNCHANGED <<graphVars, nodeVars, Farm, mappingVars, Storage, Args, Triggers, SingleNode,
                   allNodesVars, singleNodeVars, outputVars, historyVars>>

\* Mutant: Execute goes on without culling the graph.
CullGraph_NotCalled ==
    /\ pc = "Select"
    /\ Continue("FindTriggers")
    /\ UNCHANGED <<graphVars, nodeVars, Farm, mappingVars, Storage, Args, TargetNodes, Triggers, SingleNode,
                   allNodesVars, singleNodeVars, outputVars, historyVars>>

\* Mutant: the groups left with no node stay in the graph.
CullGraph_KeepsEmptyGroups ==
    /\ pc = "Select"
    /\ Groups' = [g \in 1..Len(Groups) |-> Where(Groups[g], SelectRetained(TargetNodes))]
    /\ NameToNode' = SelectRetained(TargetNodes)
    /\ Continue("FindTriggers")
    /\ UNCHANGED <<nodeVars, Farm, mappingVars, Storage, Args, TargetNodes, Triggers, SingleNode,
                   allNodesVars, singleNodeVars, outputVars, historyVars>>

\* Mutant: the graph is culled to the targets, without their dependencies.
CullGraph_TargetsOnly ==
    /\ pc = "Select"
    /\ Groups' = RemoveEmpty([g \in 1..Len(Groups) |-> Where(Groups[g], TargetNodes)])
    /\ NameToNode' = TargetNodes
    /\ Continue("FindTriggers")
    /\ UNCHANGED <<nodeVars, Farm, mappingVars, Storage, Args, TargetNodes, Triggers, SingleNode,
                   allNodesVars, singleNodeVars, outputVars, historyVars>>

\* Cull the graph to include only those nodes.
CullGraph ==
    /\ pc = "Select"
    /\ Groups' = SelectGroups(TargetNodes)
    /\ NameToNode' = SelectRetained(TargetNodes)
    /\ Continue("FindTriggers")
    /\ UNCHANGED <<nodeVars, Farm, mappingVars, Storage, Args, TargetNodes, Triggers, SingleNode,
                   allNodesVars, singleNodeVars, outputVars, historyVars>>

\* A trigger and all of its upstream triggers.
RECURSIVE Upstream(_)
Upstream(trigger) ==
    IF trigger = NoTrigger THEN {} ELSE {trigger} \cup Upstream(Parent[trigger])

\* Mutant: only the named triggers are added, not their upstream triggers.
ActiveTriggers_NamedOnly(names, bSkipTriggers) ==
    names \cup (IF bSkipTriggers THEN NameToTrigger ELSE {})

ActiveTriggers(names, bSkipTriggers) ==
    UNION {Upstream(name) : name \in names}
        \cup (IF bSkipTriggers THEN NameToTrigger ELSE {})

\* Mutant: a trigger name that is not in the graph is passed over.
FindTriggers_SkipsUnknown ==
    /\ pc = "FindTriggers"
    /\ Triggers' = ActiveTriggers(Args.TriggerNames \cap NameToTrigger, Args.bSkipTriggers)
    /\ Continue("FindSingleNode")
    /\ UNCHANGED <<graphVars, nodeVars, Farm, mappingVars, Storage, Args, TargetNodes, SingleNode,
                   allNodesVars, singleNodeVars, outputVars, historyVars>>

FindTriggers ==
    /\ pc = "FindTriggers"
    /\ IF \E name \in Args.TriggerNames : name \notin NameToTrigger
       THEN /\ Return("Error_Unknown", "UnknownTrigger")
            /\ UNCHANGED Triggers
       ELSE /\ Triggers' = ActiveTriggers(Args.TriggerNames, Args.bSkipTriggers)
            /\ Continue("FindSingleNode")
    /\ UNCHANGED <<graphVars, nodeVars, Farm, mappingVars, Storage, Args, TargetNodes, SingleNode,
                   allNodesVars, singleNodeVars, outputVars, historyVars>>

\* Mutant: the node is looked up in the graph as the script defines it.
FindSingleNode_InWholeGraph ==
    /\ pc = "FindSingleNode"
    /\ IF Args.SingleNodeName # NoNode /\ Args.SingleNodeName \notin AllNodes
       THEN /\ Return("Error_Unknown", "UnknownSingleNode")
            /\ UNCHANGED SingleNode
       ELSE /\ SingleNode' = Args.SingleNodeName
            /\ Continue("Run")
    /\ UNCHANGED <<graphVars, nodeVars, Farm, mappingVars, Storage, Args, TargetNodes, Triggers,
                   allNodesVars, singleNodeVars, outputVars, historyVars>>

\* If we're just building a single node, find it.
FindSingleNode ==
    /\ pc = "FindSingleNode"
    /\ IF Args.SingleNodeName # NoNode /\ Args.SingleNodeName \notin NameToNode
       THEN /\ Return("Error_Unknown", "UnknownSingleNode")
            /\ UNCHANGED SingleNode
       ELSE /\ SingleNode' = Args.SingleNodeName
            /\ Continue("Run")
    /\ UNCHANGED <<graphVars, nodeVars, Farm, mappingVars, Storage, Args, TargetNodes, Triggers,
                   allNodesVars, singleNodeVars, outputVars, historyVars>>

\* Mutant: only the complete nodes that pass the integrity check are found.
FindCompletedNodes_IntactOnly ==
    {n \in Range(Flatten(Groups)) :
        IsComplete(Storage, n) /\ CheckLocalIntegrity(Storage, n, OutputNames[n])}

\* Find all the nodes in the graph which are already completed.
FindCompletedNodes == {n \in Range(Flatten(Groups)) : IsComplete(Storage, n)}

ListOnly ==
    /\ pc = "Run"
    /\ Args.bListOnly
    /\ Printed' = [Called |-> TRUE, CompletedNodes |-> FindCompletedNodes]
    /\ Return("Success", "None")
    /\ UNCHANGED <<graphVars, nodeVars, Farm, mappingVars, Storage, Args, TargetNodes, Triggers, SingleNode,
                   allNodesVars, singleNodeVars, Exported, historyVars>>

Export ==
    /\ pc = "Run"
    /\ ~Args.bListOnly
    /\ Args.bExport
    /\ Printed' = [Called |-> TRUE, CompletedNodes |-> FindCompletedNodes]
    /\ Exported' = [Called |-> TRUE, Groups |-> Groups, Triggers |-> Triggers,
                    CompletedNodes |-> FindCompletedNodes]
    /\ Return("Success", "None")
    /\ UNCHANGED <<graphVars, nodeVars, Farm, mappingVars, Storage, Args, TargetNodes, Triggers, SingleNode,
                   allNodesVars, singleNodeVars, historyVars>>

\* Mutant: with -SingleNode every node of the graph is built.
RunSingleNode_RunsAllNodes ==
    /\ pc = "Run"
    /\ ~Args.bListOnly
    /\ ~Args.bExport
    /\ SingleNode # NoNode
    /\ Caller' = "BuildAllNodes"
    /\ StorageAtRun' = Storage
    /\ NodesToExecute' = Flatten(Groups)
    /\ CleanedNodes' = {}
    /\ NodeIdx' = 1
    /\ Continue("CheckIntegrity")
    /\ UNCHANGED <<graphVars, nodeVars, Farm, mappingVars, Storage, Args, TargetNodes, Triggers, SingleNode,
                   Node, TagNameToFileSet, ReferencedOutputs, OutputIdx,
                   outputVars, BuildLog, ArchiveLog, Marked, InputLog, StorageAtEntry>>

\* Mutant: -SingleNode is looked at before -Export.
RunSingleNode_BeforeExport ==
    /\ pc = "Run"
    /\ ~Args.bListOnly
    /\ SingleNode # NoNode
    /\ Caller' = "Execute"
    /\ Node' = SingleNode
    /\ StorageAtRun' = Storage
    /\ Continue("FetchInputs")
    /\ UNCHANGED <<graphVars, nodeVars, Farm, mappingVars, Storage, Args, TargetNodes, Triggers, SingleNode,
                   allNodesVars, TagNameToFileSet, ReferencedOutputs, OutputIdx,
                   outputVars, BuildLog, ArchiveLog, Marked, InputLog, StorageAtEntry>>

\* Mutant: the node is built without its input dependencies being fetched.
RunSingleNode_InputsNotFetched ==
    /\ pc = "Run"
    /\ ~Args.bListOnly
    /\ ~Args.bExport
    /\ SingleNode # NoNode
    /\ Caller' = "Execute"
    /\ Node' = SingleNode
    /\ StorageAtRun' = Storage
    /\ TagNameToFileSet' =
          [t \in UNION {Range(OutputNames[n]) : n \in Range(Flatten(Groups))} |->
              IF t \in Range(OutputNames[SingleNode]) THEN [IsNull |-> FALSE, Files |-> {}]
              ELSE [IsNull |-> TRUE, Files |-> {}]]
    /\ Continue("Build")
    /\ UNCHANGED <<graphVars, nodeVars, Farm, mappingVars, Storage, Args, TargetNodes, Triggers, SingleNode,
                   allNodesVars, ReferencedOutputs, OutputIdx,
                   outputVars, BuildLog, ArchiveLog, Marked, InputLog, StorageAtEntry>>

\* Mutant: a node that is already complete is not built again.
RunSingleNode_SkipsComplete ==
    /\ pc = "Run"
    /\ ~Args.bListOnly
    /\ ~Args.bExport
    /\ SingleNode # NoNode
    /\ Caller' = "Execute"
    /\ Node' = SingleNode
    /\ StorageAtRun' = Storage
    /\ IF IsComplete(Storage, SingleNode)
       THEN Return("Success", "None")
       ELSE Continue("FetchInputs")
    /\ UNCHANGED <<graphVars, nodeVars, Farm, mappingVars, Storage, Args, TargetNodes, Triggers, SingleNode,
                   allNodesVars, TagNameToFileSet, ReferencedOutputs, OutputIdx,
                   outputVars, BuildLog, ArchiveLog, Marked, InputLog, StorageAtEntry>>

RunSingleNode ==
    /\ pc = "Run"
    /\ ~Args.bListOnly
    /\ ~Args.bExport
    /\ SingleNode # NoNode
    /\ Caller' = "Execute"
    /\ Node' = SingleNode
    /\ StorageAtRun' = Storage
    /\ Continue("FetchInputs")
    /\ UNCHANGED <<graphVars, nodeVars, Farm, mappingVars, Storage, Args, TargetNodes, Triggers, SingleNode,
                   allNodesVars, TagNameToFileSet, ReferencedOutputs, OutputIdx,
                   outputVars, BuildLog, ArchiveLog, Marked, InputLog, StorageAtEntry>>

\* Mutant: only the nodes of the first agent group are executed.
RunAllNodes_FirstGroupOnly ==
    /\ pc = "Run"
    /\ ~Args.bListOnly
    /\ ~Args.bExport
    /\ SingleNode = NoNode
    /\ Caller' = "BuildAllNodes"
    /\ StorageAtRun' = Storage
    /\ NodesToExecute' = Head(Groups)
    /\ CleanedNodes' = {}
    /\ NodeIdx' = 1
    /\ Continue("CheckIntegrity")
    /\ UNCHANGED <<graphVars, nodeVars, Farm, mappingVars, Storage, Args, TargetNodes, Triggers, SingleNode,
                   Node, TagNameToFileSet, ReferencedOutputs, OutputIdx,
                   outputVars, BuildLog, ArchiveLog, Marked, InputLog, StorageAtEntry>>

\* Build all the nodes in the graph.
RunAllNodes ==
    /\ pc = "Run"
    /\ ~Args.bListOnly
    /\ ~Args.bExport
    /\ SingleNode = NoNode
    /\ Caller' = "BuildAllNodes"
    /\ StorageAtRun' = Storage
    /\ NodesToExecute' = Flatten(Groups)
    /\ CleanedNodes' = {}
    /\ NodeIdx' = 1
    /\ Continue("CheckIntegrity")
    /\ UNCHANGED <<graphVars, nodeVars, Farm, mappingVars, Storage, Args, TargetNodes, Triggers, SingleNode,
                   Node, TagNameToFileSet, ReferencedOutputs, OutputIdx,
                   outputVars, BuildLog, ArchiveLog, Marked, InputLog, StorageAtEntry>>


(***************************************************************************)
(* BuildAllNodes.                                                          *)
(***************************************************************************)
\* Mutant: a node is cleaned only when its own integrity check fails.
CheckIntegrity_OwnOnly ==
    /\ pc = "CheckIntegrity"
    /\ NodeIdx <= Len(NodesToExecute)
    /\ LET NodeToExecute == NodesToExecute[NodeIdx]
       IN  IF ~CheckLocalIntegrity(Storage, NodeToExecute, OutputNames[NodeToExecute])
           THEN /\ Storage' = CleanLocalNode(Storage, NodeToExecute)
                /\ CleanedNodes' = CleanedNodes \cup {NodeToExecute}
           ELSE UNCHANGED <<Storage, CleanedNodes>>
    /\ NodeIdx' = NodeIdx + 1
    /\ Continue("CheckIntegrity")
    /\ UNCHANGED <<graphVars, nodeVars, Farm, mappingVars, Args, TargetNodes, Triggers, SingleNode,
                   NodesToExecute, singleNodeVars, outputVars, historyVars>>

\* Mutant: a node is cleaned only when one of its dependencies was cleaned.
CheckIntegrity_DependenciesOnly ==
    /\ pc = "CheckIntegrity"
    /\ NodeIdx <= Len(NodesToExecute)
    /\ LET NodeToExecute == NodesToExecute[NodeIdx]
       IN  IF InputDependencies(NodeToExecute) \cap CleanedNodes # {}
           THEN /\ Storage' = CleanLocalNode(Storage, NodeToExecute)
                /\ CleanedNodes' = CleanedNodes \cup {NodeToExecute}
           ELSE UNCHANGED <<Storage, CleanedNodes>>
    /\ NodeIdx' = NodeIdx + 1
    /\ Continue("CheckIntegrity")
    /\ UNCHANGED <<graphVars, nodeVars, Farm, mappingVars, Args, TargetNodes, Triggers, SingleNode,
                   NodesToExecute, singleNodeVars, outputVars, historyVars>>

\* Mutant: a cleaned node is not added to CleanedNodes.
CheckIntegrity_CleanedNotRecorded ==
    /\ pc = "CheckIntegrity"
    /\ NodeIdx <= Len(NodesToExecute)
    /\ LET NodeToExecute == NodesToExecute[NodeIdx]
       IN  IF \/ InputDependencies(NodeToExecute) \cap CleanedNodes # {}
              \/ ~CheckLocalIntegrity(Storage, NodeToExecute, OutputNames[NodeToExecute])
           THEN /\ Storage' = CleanLocalNode(Storage, NodeToExecute)
                /\ UNCHANGED CleanedNodes
           ELSE UNCHANGED <<Storage, CleanedNodes>>
    /\ NodeIdx' = NodeIdx + 1
    /\ Continue("CheckIntegrity")
    /\ UNCHANGED <<graphVars, nodeVars, Farm, mappingVars, Args, TargetNodes, Triggers, SingleNode,
                   NodesToExecute, singleNodeVars, outputVars, historyVars>>

\* Check the integrity of any local nodes that have been completed: one
\* iteration of the loop over NodesToExecute.
CheckIntegrity ==
    /\ pc = "CheckIntegrity"
    /\ NodeIdx <= Len(NodesToExecute)
    /\ LET NodeToExecute == NodesToExecute[NodeIdx]
       IN  IF \/ InputDependencies(NodeToExecute) \cap CleanedNodes # {}
              \/ ~CheckLocalIntegrity(Storage, NodeToExecute, OutputNames[NodeToExecute])
           THEN /\ Storage' = CleanLocalNode(Storage, NodeToExecute)
                /\ CleanedNodes' = CleanedNodes \cup {NodeToExecute}
           ELSE UNCHANGED <<Storage, CleanedNodes>>
    /\ NodeIdx' = NodeIdx + 1
    /\ Continue("CheckIntegrity")
    /\ UNCHANGED <<graphVars, nodeVars, Farm, mappingVars, Args, TargetNodes, Triggers, SingleNode,
                   NodesToExecute, singleNodeVars, outputVars, historyVars>>

\* Mutant: the nodes are executed once the integrity of the first is checked.
StartExecuting_AfterFirstNode ==
    /\ pc = "CheckIntegrity"
    /\ NodeIdx > 1
    /\ NodeIdx' = 1
    /\ Continue("ExecuteNodes")
    /\ UNCHANGED <<graphVars, nodeVars, Farm, mappingVars, Storage, Args, TargetNodes, Triggers, SingleNode,
                   NodesToExecute, CleanedNodes, singleNodeVars, outputVars, historyVars>>

\* The integrity loop is over: execute the nodes in order.
StartExecuting ==
    /\ pc = "CheckIntegrity"
    /\ NodeIdx > Len(NodesToExecute)
    /\ NodeIdx' = 1
    /\ Continue("ExecuteNodes")
    /\ UNCHANGED <<graphVars, nodeVars, Farm, mappingVars, Storage, Args, TargetNodes, Triggers, SingleNode,
                   NodesToExecute, CleanedNodes, singleNodeVars, outputVars, historyVars>>

\* Mutant: the execution loop pushes the manifests of a complete node to the
\* shared directory as it passes over it.
SkipCompleteNode_PushesManifests ==
    /\ pc = "ExecuteNodes"
    /\ NodeIdx <= Len(NodesToExecute)
    /\ IsComplete(Storage, NodesToExecute[NodeIdx])
    /\ LET own == OutputKeys(NodesToExecute[NodeIdx]) \cap DOMAIN Storage.Local
       IN  Storage' =
               IF Storage.SharedDir /\ Storage.bWriteToSharedStorage
               THEN [Storage EXCEPT !.Shared =
                        [k \in (DOMAIN @) \cup own |->
                            IF k \in own THEN Storage.Local[k] ELSE @[k]]]
               ELSE Storage
    /\ NodeIdx' = NodeIdx + 1
    /\ Continue("ExecuteNodes")
    /\ UNCHANGED <<graphVars, nodeVars, Farm, mappingVars, Args, TargetNodes, Triggers, SingleNode,
                   NodesToExecute, CleanedNodes, singleNodeVars, outputVars, historyVars>>

\* Mutant: the execution loop does not move on from a complete node.
SkipCompleteNode_StaysOnNode ==
    /\ pc = "ExecuteNodes"
    /\ NodeIdx <= Len(NodesToExecute)
    /\ IsComplete(Storage, NodesToExecute[NodeIdx])
    /\ NodeIdx' = NodeIdx
    /\ Continue("ExecuteNodes")
    /\ UNCHANGED <<graphVars, nodeVars, Farm, mappingVars, Storage, Args, TargetNodes, Triggers, SingleNode,
                   NodesToExecute, CleanedNodes, singleNodeVars, outputVars, historyVars>>

\* One iteration of the execution loop for a node that is already complete.
SkipCompleteNode ==
    /\ pc = "ExecuteNodes"
    /\ NodeIdx <= Len(NodesToExecute)
    /\ IsComplete(Storage, NodesToExecute[NodeIdx])
    /\ NodeIdx' = NodeIdx + 1
    /\ Continue("ExecuteNodes")
    /\ UNCHANGED <<graphVars, nodeVars, Farm, mappingVars, Storage, Args, TargetNodes, Triggers, SingleNode,
                   NodesToExecute, CleanedNodes, singleNodeVars, outputVars, historyVars>>

\* Mutant: BuildSingleNode is called whether or not the node is complete.
ExecuteNode_IgnoresComplete ==
    /\ pc = "ExecuteNodes"
    /\ NodeIdx <= Len(NodesToExecute)
    /\ Node' = NodesToExecute[NodeIdx]
    /\ Continue("FetchInputs")
    /\ UNCHANGED <<graphVars, nodeVars, Farm, mappingVars, Storage, Args, TargetNodes, Triggers, SingleNode,
                   allNodesVars, Caller, TagNameToFileSet, ReferencedOutputs, OutputIdx,
                   outputVars, historyVars>>

\* One iteration of the execution loop for a node that is not complete: the
\* call of BuildSingleNode.
ExecuteNode ==
    /\ pc = "ExecuteNodes"
    /\ NodeIdx <= Len(NodesToExecute)
    /\ ~IsComplete(Storage, NodesToExecute[NodeIdx])
    /\ Node' = NodesToExecute[NodeIdx]
    /\ Continue("FetchInputs")
    /\ UNCHANGED <<graphVars, nodeVars, Farm, mappingVars, Storage, Args, TargetNodes, Triggers, SingleNode,
                   allNodesVars, Caller, TagNameToFileSet, ReferencedOutputs, OutputIdx,
                   outputVars, historyVars>>

\* The execution loop is over: BuildAllNodes returns true.
FinishAllNodes ==
    /\ pc = "ExecuteNodes"
    /\ NodeIdx > Len(NodesToExecute)
    /\ Return("Success", "None")
    /\ UNCHANGED <<graphVars, nodeVars, Farm, mappingVars, Storage, Args, TargetNodes, Triggers, SingleNode,
                   allNodesVars, singleNodeVars, outputVars, historyVars>>

(***************************************************************************)
(* BuildSingleNode.                                                        *)
(***************************************************************************)
\* The locals of BuildSingleNode go out of scope.
LeaveBuildSingleNode ==
    /\ Node' = NoNode
    /\ TagNameToFileSet' = <<>>
    /\ ReferencedOutputs' = {}
    /\ OutputIdx' = 0

\* Mutant: BuildAllNodes goes on to the next node after a failed one.
ReturnFromBuildSingleNode_GoesOn(bResult) ==
    /\ IF Caller = "Execute"
       THEN /\ IF bResult THEN Return("Success", "None")
                          ELSE Return("Error_Unknown", "BuildFailed")
            /\ UNCHANGED NodeIdx
       ELSE /\ NodeIdx' = NodeIdx + 1
            /\ pc' = "ExecuteNodes"
            /\ ExitCode' = ExitCode
            /\ Error' = IF bResult THEN Error ELSE "BuildFailed"
    /\ LeaveBuildSingleNode

\* Where BuildSingleNode returns to: Execute returns its exit code, and
\* BuildAllNodes returns false on a failure and goes on to the next node
\* otherwise.
ReturnFromBuildSingleNode(bResult) ==
    /\ IF ~bResult THEN /\ Return("Error_Unknown", "BuildFailed")
                        /\ UNCHANGED NodeIdx
       ELSE IF Caller = "Execute" THEN /\ Return("Success", "None")
                                       /\ UNCHANGED NodeIdx
       ELSE /\ NodeIdx' = NodeIdx + 1
            /\ Continue("ExecuteNodes")
    /\ LeaveBuildSingleNode

\* Mutant: only the input tag names of the node are seeded.
SeededTags_InputsOnly == [t \in Range(InputNames[Node]) |-> Null]

\* The tag names of every node in the graph, seeded with invalid entries.
SeededTags ==
    [t \in UNION {Range(OutputNames[n]) : n \in Range(Flatten(Groups))} |-> Null]

\* Mutant: the manifests are retrieved but the tags are not filled in.
RECURSIVE FetchInputsFrom_TagsNotFilled(_, _, _, _)
FetchInputsFrom_TagsNotFilled(S, tags, inputNames, i) ==
    IF i > Len(inputNames) THEN [Ok |-> TRUE, Storage |-> S, Tags |-> tags]
    ELSE LET InputName == inputNames[i]
             InputNode == OutputNameToNode[InputName]
             got == Retreive(S, InputNode, InputName)
         IN  IF ~got.Found THEN [Ok |-> FALSE, Storage |-> S, Tags |-> tags]
             ELSE FetchInputsFrom_TagsNotFilled(got.Storage,
                      Put(tags, InputName, FileSet({})), inputNames, i + 1)

\* Mutant: an input whose manifest is missing is taken to hold no files.
RECURSIVE FetchInputsFrom_MissingIsEmpty(_, _, _, _)
FetchInputsFrom_MissingIsEmpty(S, tags, inputNames, i) ==
    IF i > Len(inputNames) THEN [Ok |-> TRUE, Storage |-> S, Tags |-> tags]
    ELSE LET InputName == inputNames[i]
             InputNode == OutputNameToNode[InputName]
             got == Retreive(S, InputNode, InputName)
         IN  FetchInputsFrom_MissingIsEmpty(got.Storage,
                 Put(tags, InputName,
                     FileSet({ToFileReference(f) : f \in got.Manifest})),
                 inputNames, i + 1)

\* Mutant: every manifest is asked of the first node of the graph, not of
\* the node that produces the input.
RECURSIVE FetchInputsFrom_FromFirstNode(_, _, _, _)
FetchInputsFrom_FromFirstNode(S, tags, inputNames, i) ==
    IF i > Len(inputNames) THEN [Ok |-> TRUE, Storage |-> S, Tags |-> tags]
    ELSE LET InputName == inputNames[i]
             InputNode == NodeOrder[1]
             got == Retreive(S, InputNode, InputName)
         IN  IF ~got.Found THEN [Ok |-> FALSE, Storage |-> S, Tags |-> tags]
             ELSE FetchInputsFrom_FromFirstNode(got.Storage,
                      Put(tags, InputName,
                          FileSet({ToFileReference(f) : f \in got.Manifest})),
                      inputNames, i + 1)

\* Fetch the input dependencies from position i on: the storage and the tag
\* mapping afterwards, or the first manifest that is missing.
RECURSIVE FetchInputsFrom(_, _, _, _)
FetchInputsFrom(S, tags, inputNames, i) ==
    IF i > Len(inputNames) THEN [Ok |-> TRUE, Storage |-> S, Tags |-> tags]
    ELSE LET InputName == inputNames[i]
             InputNode == OutputNameToNode[InputName]
             got == Retreive(S, InputNode, InputName)
         IN  IF ~got.Found THEN [Ok |-> FALSE, Storage |-> S, Tags |-> tags]
             ELSE FetchInputsFrom(got.Storage,
                      Put(tags, InputName,
                          FileSet({ToFileReference(f) : f \in got.Manifest})),
                      inputNames, i + 1)

\* Add placeholder outputs for the current node.
RECURSIVE WithPlaceholders(_, _, _)
WithPlaceholders(tags, outputNames, i) ==
    IF i > Len(outputNames) THEN tags
    ELSE WithPlaceholders(Put(tags, outputNames[i], FileSet({})), outputNames, i + 1)

FetchInputs ==
    /\ pc = "FetchInputs"
    /\ LET fetched == FetchInputsFrom(Storage, SeededTags, InputNames[Node], 1)
       IN  /\ Storage' = fetched.Storage
           /\ IF fetched.Ok
              THEN /\ TagNameToFileSet' = WithPlaceholders(fetched.Tags, OutputNames[Node], 1)
                   /\ Continue("Build")
                   /\ UNCHANGED <<Node, ReferencedOutputs, OutputIdx, NodeIdx>>
              ELSE /\ Throw("MissingOutput")
                   /\ LeaveBuildSingleNode
                   /\ UNCHANGED NodeIdx
    /\ UNCHANGED <<graphVars, nodeVars, Farm, mappingVars, Args, TargetNodes, Triggers, SingleNode,
                   NodesToExecute, CleanedNodes, Caller, outputVars, historyVars>>

\* Mutant: only the inputs of nodes in other agent groups are referenced.
ReferencedOutputsOf_OtherGroupsOnly(node) ==
    UNION {Range(InputNames[OtherNode]) :
             OtherNode \in {n \in Range(Flatten(Groups)) :
                              \E g \in 1..Len(Groups) :
                                 /\ n \in Range(Groups[g])
                                 /\ node \notin Range(Groups[g])}}

\* The outputs which are required to be copied to temp storage.
ReferencedOutputsOf(node) ==
    UNION {Range(InputNames[OtherNode]) :
             OtherNode \in {n \in Range(Flatten(Groups)) :
                              \E g \in 1..Len(Groups) :
                                 /\ n \in Range(Groups[g])
                                 /\ \/ node \notin Range(Groups[g])
                                    \/ ControllingTrigger[node] # ControllingTrigger[n]}}

\* Node.Build: the build logic fills in the node's own output tags.
BuiltTags(tags, node) ==
    [t \in DOMAIN tags |->
        IF t \in Range(OutputNames[node])
        THEN FileSet({ToFileReference(f) : f \in Behaviour[node].Outputs[t]})
        ELSE tags[t]]

\* What BuildSingleNode hands to Node.Build for the input tags of the node.
BuildInputs ==
    [Node |-> Node, Caller |-> Caller,
     Inputs |-> [t \in Range(InputNames[Node]) |-> TagNameToFileSet[t]]]

\* Mutant: a node whose build fails is built a second time.
InvokeBuild_RetriesOnce ==
    /\ pc = "Build"
    /\ BuildLog' = Append(BuildLog, Node)
    /\ InputLog' = Append(InputLog, BuildInputs)
    /\ IF Behaviour[Node].Ok
       THEN /\ TagNameToFileSet' = BuiltTags(TagNameToFileSet, Node)
            /\ ReferencedOutputs' = ReferencedOutputsOf(Node)
            /\ OutputIdx' = 1
            /\ Continue("Archive")
            /\ UNCHANGED <<Node, NodeIdx>>
       ELSE IF Node \notin Range(BuildLog)
       THEN /\ Continue("Build")
            /\ UNCHANGED <<Node, NodeIdx, TagNameToFileSet, ReferencedOutputs, OutputIdx>>
       ELSE ReturnFromBuildSingleNode(FALSE)
    /\ UNCHANGED <<graphVars, nodeVars, Farm, mappingVars, Storage, Args, TargetNodes, Triggers, SingleNode,
                   NodesToExecute, CleanedNodes, Caller, outputVars, ArchiveLog, Marked,
                   StorageAtRun, StorageAtEntry>>

\* Mutant: a node whose build fails is marked as succeeded all the same.
InvokeBuild_MarksFailed ==
    /\ pc = "Build"
    /\ BuildLog' = Append(BuildLog, Node)
    /\ InputLog' = Append(InputLog, BuildInputs)
    /\ IF Behaviour[Node].Ok
       THEN /\ TagNameToFileSet' = BuiltTags(TagNameToFileSet, Node)
            /\ ReferencedOutputs' = ReferencedOutputsOf(Node)
            /\ OutputIdx' = 1
            /\ Continue("Archive")
            /\ UNCHANGED <<Node, NodeIdx, Storage>>
       ELSE /\ Storage' = MarkAsComplete(Storage, Node)
            /\ ReturnFromBuildSingleNode(FALSE)
    /\ UNCHANGED <<graphVars, nodeVars, Farm, mappingVars, Args, TargetNodes, Triggers, SingleNode,
                   NodesToExecute, CleanedNodes, Caller, outputVars, ArchiveLog, Marked,
                   StorageAtRun, StorageAtEntry>>

InvokeBuild ==
    /\ pc = "Build"
    /\ BuildLog' = Append(BuildLog, Node)
    /\ InputLog' = Append(InputLog, BuildInputs)
    /\ IF Behaviour[Node].Ok
       THEN /\ TagNameToFileSet' = BuiltTags(TagNameToFileSet, Node)
            /\ ReferencedOutputs' = ReferencedOutputsOf(Node)
            /\ OutputIdx' = 1
            /\ Continue("Archive")
            /\ UNCHANGED <<Node, NodeIdx>>
       ELSE ReturnFromBuildSingleNode(FALSE)
    /\ UNCHANGED <<graphVars, nodeVars, Farm, mappingVars, Storage, Args, TargetNodes, Triggers, SingleNode,
                   NodesToExecute, CleanedNodes, Caller, outputVars, ArchiveLog, Marked,
                   StorageAtRun, StorageAtEntry>>

\* Mutant: the outputs are archived under the name of the first node of the
\* graph, not of the node that was built.
ArchiveOutput_UnderFirstNode ==
    /\ pc = "Archive"
    /\ OutputIdx <= Len(OutputNames[Node])
    /\ LET OutputName == OutputNames[Node][OutputIdx]
           mustPush == OutputName \in ReferencedOutputs
       IN  /\ Storage' = Archive(Storage, NodeOrder[1], OutputName,
                                 TagNameToFileSet[OutputName].Files, mustPush)
           /\ ArchiveLog' = Append(ArchiveLog,
                                   [Node |-> NodeOrder[1], OutputName |-> OutputName,
                                    Files |-> TagNameToFileSet[OutputName].Files,
                                    mustPushToShared |-> mustPush])
    /\ OutputIdx' = OutputIdx + 1
    /\ Continue("Archive")
    /\ UNCHANGED <<graphVars, nodeVars, Farm, mappingVars, Args, TargetNodes, Triggers, SingleNode,
                   allNodesVars, Caller, Node, TagNameToFileSet, ReferencedOutputs,
                   outputVars, BuildLog, Marked, StorageAtRun, InputLog, StorageAtEntry>>

\* Mutant: no output is required to be copied to shared storage.
ArchiveOutput_NeverPushes ==
    /\ pc = "Archive"
    /\ OutputIdx <= Len(OutputNames[Node])
    /\ LET OutputName == OutputNames[Node][OutputIdx]
       IN  /\ Storage' = Archive(Storage, Node, OutputName,
                                 TagNameToFileSet[OutputName].Files, FALSE)
           /\ ArchiveLog' = Append(ArchiveLog,
                                   [Node |-> Node, OutputName |-> OutputName,
                                    Files |-> TagNameToFileSet[OutputName].Files,
                                    mustPushToShared |-> FALSE])
    /\ OutputIdx' = OutputIdx + 1
    /\ Continue("Archive")
    /\ UNCHANGED <<graphVars, nodeVars, Farm, mappingVars, Args, TargetNodes, Triggers, SingleNode,
                   allNodesVars, Caller, Node, TagNameToFileSet, ReferencedOutputs,
                   outputVars, BuildLog, Marked, StorageAtRun, InputLog, StorageAtEntry>>

\* Mutant: BuildAllNodes goes on to the next node once the first output of
\* a node is published.
ArchiveOutput_ThenNextNode ==
    /\ pc = "Archive"
    /\ OutputIdx <= Len(OutputNames[Node])
    /\ LET OutputName == OutputNames[Node][OutputIdx]
           mustPush == OutputName \in ReferencedOutputs
       IN  /\ Storage' = Archive(Storage, Node, OutputName,
                                 TagNameToFileSet[OutputName].Files, mustPush)
           /\ ArchiveLog' = Append(ArchiveLog,
                                   [Node |-> Node, OutputName |-> OutputName,
                                    Files |-> TagNameToFileSet[OutputName].Files,
                                    mustPushToShared |-> mustPush])
    /\ IF Caller = "BuildAllNodes"
       THEN /\ NodeIdx' = NodeIdx + 1
            /\ Continue("ExecuteNodes")
            /\ LeaveBuildSingleNode
       ELSE /\ OutputIdx' = OutputIdx + 1
            /\ Continue("Archive")
            /\ UNCHANGED <<NodeIdx, Node, TagNameToFileSet, ReferencedOutputs>>
    /\ UNCHANGED <<graphVars, nodeVars, Farm, mappingVars, Args, TargetNodes, Triggers, SingleNode,
                   NodesToExecute, CleanedNodes, Caller,
                   outputVars, BuildLog, Marked, StorageAtRun, InputLog, StorageAtEntry>>

\* Publish all the outputs: one iteration of the loop over Node.OutputNames.
ArchiveOutput ==
    /\ pc = "Archive"
    /\ OutputIdx <= Len(OutputNames[Node])
    /\ LET OutputName == OutputNames[Node][OutputIdx]
           mustPush == OutputName \in ReferencedOutputs
       IN  /\ Storage' = Archive(Storage, Node, OutputName,
                                 TagNameToFileSet[OutputName].Files, mustPush)
           /\ ArchiveLog' = Append(ArchiveLog,
                                   [Node |-> Node, OutputName |-> OutputName,
                                    Files |-> TagNameToFileSet[OutputName].Files,
                                    mustPushToShared |-> mustPush])
    /\ OutputIdx' = OutputIdx + 1
    /\ Continue("Archive")
    /\ UNCHANGED <<graphVars, nodeVars, Farm, mappingVars, Args, TargetNodes, Triggers, SingleNode,
                   allNodesVars, Caller, Node, TagNameToFileSet, ReferencedOutputs,
                   outputVars, BuildLog, Marked, StorageAtRun, InputLog, StorageAtEntry>>

\* Mutant: the node is not marked as succeeded.
MarkNodeComplete_NoMarker ==
    /\ pc = "Archive"
    /\ OutputIdx > Len(OutputNames[Node])
    /\ ReturnFromBuildSingleNode(TRUE)
    /\ UNCHANGED <<graphVars, nodeVars, Farm, mappingVars, Storage, Args, TargetNodes, Triggers, SingleNode,
                   NodesToExecute, CleanedNodes, Caller, outputVars, historyVars>>

\* Mutant: the node is marked as succeeded once its first output is published.
MarkNodeComplete_AfterFirstOutput ==
    /\ pc = "Archive"
    /\ OutputIdx > 1
    /\ Storage' = MarkAsComplete(Storage, Node)
    /\ Marked' = Marked \cup {Node}
    /\ ReturnFromBuildSingleNode(TRUE)
    /\ UNCHANGED <<graphVars, nodeVars, Farm, mappingVars, Args, TargetNodes, Triggers, SingleNode,
                   NodesToExecute, CleanedNodes, Caller, outputVars, BuildLog, ArchiveLog,
                   StorageAtRun, InputLog, StorageAtEntry>>

\* Mark the node as succeeded, and return true.
MarkNodeComplete ==
    /\ pc = "Archive"
    /\ OutputIdx > Len(OutputNames[Node])
    /\ Storage' = MarkAsComplete(Storage, Node)
    /\ Marked' = Marked \cup {Node}
    /\ ReturnFromBuildSingleNode(TRUE)
    /\ UNCHANGED <<graphVars, nodeVars, Farm, mappingVars, Args, TargetNodes, Triggers, SingleNode,
                   NodesToExecute, CleanedNodes, Caller, outputVars, BuildLog, ArchiveLog,
                   StorageAtRun, InputLog, StorageAtEntry>>


(***************************************************************************)
(* The initial states: a graph as the script reader hands it over          *)
(* (topologically ordered, every tag produced by one node), the build      *)
(* logic of its nodes, the storage as earlier runs left it, and a command  *)
(* line.  They are drawn from the families below; each family varies some  *)
(* of these and fixes the others.                                          *)
(***************************************************************************)
TagOrder == <<"Binaries", "Symbols", "Archive", "Published">>

EarlierTags(n) ==
    UNION {Range(OutputNames[m]) : m \in {x \in AllNodes : PositionOf(x) < PositionOf(n)}}

\* Every assignment of input tags to nodes that respects the node order.
InputChoices ==
    {[n \in AllNodes |-> Where(TagOrder, f[n])] :
        f \in {g \in [AllNodes -> SUBSET AllTags] : \A n \in AllNodes : g[n] \subseteq EarlierTags(n)}}

ChainInputs ==
    [n \in AllNodes |->
        CASE n = "Compile" -> <<>>
          [] n = "Package" -> <<"Binaries">>
          [] OTHER         -> <<"Archive">>]

\* Every division of the node order into agent groups.
GroupLayouts ==
    { <<NodeOrder>>,
      <<SubSeq(NodeOrder, 1, 1), SubSeq(NodeOrder, 2, 3)>>,
      <<SubSeq(NodeOrder, 1, 2), SubSeq(NodeOrder, 3, 3)>>,
      <<SubSeq(NodeOrder, 1, 1), SubSeq(NodeOrder, 2, 2), SubSeq(NodeOrder, 3, 3)>> }

TriggerChoices == [AllNodes -> NameToTrigger \cup {NoTrigger}]
NoTriggers == [n \in AllNodes |-> NoTrigger]

\* What a build leaves in each output tag: the k-th output holds the k-th file.
GoodOutputs(n) ==
    [t \in Range(OutputNames[n]) |->
        IF t = OutputNames[n][1] THEN {"a.obj"} ELSE {"b.obj"}]
GoodBuild(n) == [Ok |-> TRUE, Outputs |-> GoodOutputs(n)]
FailedBuild(n) == [Ok |-> FALSE, Outputs |-> [t \in Range(OutputNames[n]) |-> {}]]
AnyBuild(n) ==
    {FailedBuild(n)} \cup
    {[Ok |-> TRUE, Outputs |-> o] : o \in [Range(OutputNames[n]) -> SUBSET Files]}

AllGood == [n \in AllNodes |-> GoodBuild(n)]
OneFails == {[AllGood EXCEPT ![n] = FailedBuild(n)] : n \in AllNodes}
OneArbitrary == UNION {{[AllGood EXCEPT ![n] = b] : b \in AnyBuild(n)} : n \in AllNodes}

\* The local state of a node left by earlier runs: nothing, complete with
\* its manifests, or complete with files that were changed since.
StatusChoices == [AllNodes -> {"None", "Complete", "Modified"}]
NothingLocal == [n \in AllNodes |-> "None"]

PriorManifest(o) == IF o = OutputNames[OutputNameToNode[o]][1] THEN {"a.obj"} ELSE {"b.obj"}

ManifestsOf(nodes) ==
    [k \in {<<n, o>> : n \in nodes, o \in AllTags} \cap
           {<<OutputNameToNode[o], o>> : o \in AllTags} |-> PriorManifest(k[2])]

\* Mutant: build products are written whenever a shared directory is given.
bWriteToSharedStorage_WithSharedDir(args) == args.SharedStorageDir

\* Whether build products are written to shared storage: asked for on the
\* command line, or the process runs on a build machine.
bWriteToSharedStorage(args) == args.WriteToSharedStorage \/ args.IsBuildMachine

InitialStorage(status, sharedNodes, args) ==
    [Complete |-> {n \in AllNodes : status[n] # "None"},
     Local |-> ManifestsOf({n \in AllNodes : status[n] # "None"}),
     Modified |-> DOMAIN ManifestsOf({n \in AllNodes : status[n] = "Modified"}),
     Shared |-> ManifestsOf(sharedNodes),
     SharedDir |-> args.SharedStorageDir,
     bWriteToSharedStorage |-> bWriteToSharedStorage(args)]

AtMost(S, k) == {x \in SUBSET S : Cardinality(x) <= k}

TargetUniverse == AllNodes \cup AllTags \cup {"Missing"}
TargetChoices == AtMost(TargetUniverse, MaxTargets) \ {{}}
TriggerArgChoices == AtMost(NameToTrigger \cup {"Missing"}, MaxTriggerArgs)
CleanNodeChoices == AtMost(AllNodes, MaxCleanNodes)

\* The classes with a TaskElementAttribute the loaded assemblies hold.
TaskClass(name, isCustomTask, isPublic) ==
    [Name |-> name, IsCustomTask |-> isCustomTask, IsPublicAssembly |-> isPublic]

StandardTasks == <<TaskClass("Compile", TRUE, TRUE), TaskClass("Copy", TRUE, TRUE)>>

TaskClassUniverse ==
    {TaskClass("Compile", TRUE, TRUE), TaskClass("Compile", TRUE, FALSE),
     TaskClass("Copy", TRUE, TRUE), TaskClass("Copy", FALSE, TRUE)}

TaskClassChoices == UNION {[1..k -> TaskClassUniverse] : k \in 0..MaxTaskClasses}

PlainArgs(targets) ==
    [Params |-> {"Script", "Target"}, bScriptReads |-> TRUE,
     TargetNames |-> targets, TriggerNames |-> {}, bSkipTriggers |-> FALSE,
     bClean |-> FALSE, CleanNodes |-> {}, bListOnly |-> FALSE, bExport |-> FALSE,
     SingleNodeName |-> NoNode, WriteToSharedStorage |-> FALSE,
     SharedStorageDir |-> FALSE, IsBuildMachine |-> FALSE,
     TaskClasses |-> StandardTasks, bPublicTasksOnly |-> FALSE]

Scenario(inputs, layout, trigger, behaviour, status, sharedNodes, args) ==
    [Inputs |-> inputs, Layout |-> layout, Trigger |-> trigger, Behaviour |-> behaviour,
     Status |-> status, SharedNodes |-> sharedNodes, Args |-> args]

\* Any graph shape and any targets, built from an empty cache.
SelectionScenarios ==
    {Scenario(i, <<NodeOrder>>, NoTriggers, b, NothingLocal, {}, PlainArgs(t)) :
        i \in InputChoices, t \in TargetChoices, b \in {AllGood} \cup OneFails}

\* Any local cache state and any clean request, on graphs with dependencies.
CacheScenarios ==
    {Scenario(i, <<NodeOrder>>, NoTriggers, b, s, {},
              [PlainArgs({"Publish"}) EXCEPT !.bClean = c[1], !.CleanNodes = c[2]]) :
        i \in {x \in InputChoices : \A n \in AllNodes : Len(x[n]) <= 1},
        b \in {AllGood, [AllGood EXCEPT !["Package"] = FailedBuild("Package")]},
        s \in StatusChoices,
        c \in {<<TRUE, {}>>} \cup {<<FALSE, x>> : x \in CleanNodeChoices}}

\* Any gating of nodes by triggers and any trigger request.
TriggerScenarios ==
    {Scenario(ChainInputs, <<NodeOrder>>, g, AllGood, NothingLocal, {},
              [PlainArgs({"Publish"}) EXCEPT !.TriggerNames = r, !.bSkipTriggers = k,
                                             !.bExport = e]) :
        g \in TriggerChoices, r \in TriggerArgChoices, k \in BOOLEAN, e \in BOOLEAN}

\* Any build outcome of one node, with any division into agent groups.
BuildScenarios ==
    {Scenario(ChainInputs, l, NoTriggers, b, NothingLocal, {}, PlainArgs({"Publish"})) :
        l \in GroupLayouts, b \in OneArbitrary}

\* One node run on its own, or the graph only listed, against a cache that
\* holds some nodes locally and some in shared storage.
SingleNodeScenarios ==
    {Scenario(i, <<NodeOrder>>, NoTriggers, AllGood, s, h,
              [PlainArgs({"Publish"}) EXCEPT !.SingleNodeName = n, !.bListOnly = l,
                                             !.SharedStorageDir = d]) :
        i \in {ChainInputs},
        s \in {x \in StatusChoices : \A n \in AllNodes : x[n] # "Modified"},
        h \in SUBSET AllNodes, n \in AllNodes \cup {NoNode}, l \in BOOLEAN, d \in BOOLEAN}

\* Any placing of the consumers of an output: in the producer's agent group
\* or another, behind the producer's trigger or another, with any setting of
\* the shared storage.
SharingInputs == {ChainInputs, [ChainInputs EXCEPT !["Publish"] = <<"Symbols", "Archive">>]}
SharingTriggers == [AllNodes -> {NoTrigger, "QA"}]

SharingScenarios ==
    {Scenario(i, l, g, AllGood, NothingLocal, {},
              [PlainArgs({t}) EXCEPT !.WriteToSharedStorage = w, !.IsBuildMachine = m,
                                     !.SharedStorageDir = d]) :
        i \in SharingInputs, l \in GroupLayouts, g \in SharingTriggers,
        t \in {"Package", "Publish"}, w \in BOOLEAN, m \in BOOLEAN, d \in BOOLEAN}

\* Any set of task handlers, with a target and a trigger that are in the
\* graph or are not.
ConfigurationScenarios ==
    {Scenario(ChainInputs, <<NodeOrder>>, NoTriggers, AllGood,
              [NothingLocal EXCEPT !["Compile"] = "Complete"], {},
              [PlainArgs({t}) EXCEPT !.TriggerNames = r, !.TaskClasses = c,
                                     !.bPublicTasksOnly = q]) :
        t \in {"Archive", "Missing"}, r \in {{}, {"QA"}, {"Missing"}},
        c \in TaskClassChoices, q \in BOOLEAN}

\* Any division into agent groups of a graph in which a node has at most
\* one input, culled to any node.
LayoutScenarios ==
    {Scenario(i, l, NoTriggers, AllGood, NothingLocal, {}, PlainArgs({t})) :
        i \in {x \in InputChoices : \A n \in AllNodes : Len(x[n]) <= 1},
        l \in GroupLayouts, t \in AllNodes}

\* The graph culled to any node and listed or exported against any local
\* cache.
ListingScenarios ==
    {Scenario(ChainInputs, <<NodeOrder>>, NoTriggers, AllGood, s, {},
              [PlainArgs({t}) EXCEPT !.bListOnly = l, !.bExport = ~l]) :
        s \in StatusChoices, t \in AllNodes, l \in BOOLEAN}

\* Any command line, with or without -Script and -Target, a script that
\* reads or does not, a node to run on its own that is in the graph culled
\* to the target or is not, and any of -ListOnly and -Export.
CommandLineScenarios ==
    {Scenario(ChainInputs, <<NodeOrder>>, NoTriggers, b, NothingLocal, {},
              [PlainArgs({t}) EXCEPT !.Params = p, !.bScriptReads = r,
                                     !.SingleNodeName = n, !.bListOnly = x[1],
                                     !.bExport = x[2]]) :
        b \in {AllGood} \cup OneFails, t \in {"Package", "Missing"},
        p \in SUBSET {"Script", "Target"}, r \in BOOLEAN,
        n \in {NoNode, "Compile", "Publish"},
        x \in {<<FALSE, FALSE>>, <<TRUE, FALSE>>, <<FALSE, TRUE>>, <<TRUE, TRUE>>}}

\* Any local cache in front of a shared directory the process writes to,
\* with each node in an agent group of its own.
IncrementalScenarios ==
    {Scenario(i, l, NoTriggers, AllGood, s, {},
              [PlainArgs({"Publish"}) EXCEPT !.WriteToSharedStorage = TRUE,
                                             !.SharedStorageDir = TRUE]) :
        i \in {ChainInputs, [ChainInputs EXCEPT !["Publish"] = <<>>]},
        l \in {<<SubSeq(NodeOrder, 1, 1), SubSeq(NodeOrder, 2, 2), SubSeq(NodeOrder, 3, 3)>>},
        s \in StatusChoices}

\* Any local cache and any clean request, with a target or a trigger that is
\* not in the graph.
CleanErrorScenarios ==
    {Scenario(ChainInputs, <<NodeOrder>>, NoTriggers, AllGood, s, {},
              [PlainArgs({e[1]}) EXCEPT !.TriggerNames = e[2], !.bClean = c[1],
                                        !.CleanNodes = c[2]]) :
        s \in StatusChoices,
        e \in {<<"Missing", {}>>, <<"Publish", {"Missing"}>>},
        c \in {<<TRUE, {}>>} \cup {<<FALSE, x>> : x \in CleanNodeChoices}}

Scenarios ==
    LayoutScenarios \cup ListingScenarios \cup CommandLineScenarios \cup ConfigurationScenarios \cup SelectionScenarios \cup CacheScenarios \cup TriggerScenarios \cup BuildScenarios
        \cup SingleNodeScenarios \cup SharingScenarios \cup IncrementalScenarios
        \cup CleanErrorScenarios

\* The state in which Execute is entered in a scenario.
EnterExecute(sc) ==
    /\ Groups = sc.Layout
    /\ NameToNode = AllNodes
    /\ InputNames = sc.Inputs
    /\ ControllingTrigger = sc.Trigger
    /\ Behaviour = sc.Behaviour
    /\ Storage = InitialStorage(sc.Status, sc.SharedNodes, sc.Args)
    /\ Args = sc.Args
    /\ pc = "ParseParams"
    /\ TargetNodes = {}
    /\ Triggers = {}
    /\ SingleNode = NoNode
    /\ ExitCode = "Running"
    /\ Error = "None"
    /\ NodesToExecute = <<>>
    /\ CleanedNodes = {}
    /\ NodeIdx = 0
    /\ Caller = "None"
    /\ Node = NoNode
    /\ TagNameToFileSet = <<>>
    /\ ReferencedOutputs = {}
    /\ OutputIdx = 0
    /\ Printed = NotPrinted
    /\ Exported = NotExported
    /\ BuildLog = <<>>
    /\ ArchiveLog = <<>>
    /\ Marked = {}
    /\ StorageAtRun = NoStorage
    /\ InputLog = <<>>
    /\ StorageAtEntry = InitialStorage(sc.Status, sc.SharedNodes, sc.Args)
    /\ FileToOutputName = <<>>
    /\ bMappingResult = TRUE
    /\ FileToOutputNameAtCall = <<>>

\* The workspace the process runs in, and a farm with the given script.
Origin == <<0, NoTrigger>>

FarmFor(script) ==
    [Script |-> script, Caches |-> <<>>, Agent |-> Origin, Started |-> {}, Finished |-> {}]

Init ==
    \E sc \in Scenarios :
        /\ EnterExecute(sc)
        /\ Farm = FarmFor(<<>>)

Next ==
    \/ ParseParams
    \/ FindTasks
    \/ ReadScript
    \/ CreateStorage
    \/ ResolveTargets
    \/ CullGraph
    \/ FindTriggers
    \/ FindSingleNode
    \/ ListOnly
    \/ Export
    \/ RunSingleNode
    \/ RunAllNodes
    \/ CheckIntegrity
    \/ StartExecuting
    \/ SkipCompleteNode
    \/ ExecuteNode
    \/ FinishAllNodes
    \/ FetchInputs
    \/ InvokeBuild
    \/ ArchiveOutput
    \/ MarkNodeComplete

Spec == Init /\ [][Next]_vars

\* Execute runs on one thread, which takes its next step as long as it has
\* one: nothing in Execute waits for another thread or for input.
FairSpec == Spec /\ WF_vars(Next)


(***************************************************************************)
(* A distributed run.  A first process exports or lists the graph, or      *)
(* builds it inline; an external scheduler then starts one process per     *)
(* node of the graph with -SingleNode, once the processes of the node's    *)
(* dependencies have returned success.  Nodes of one agent group behind    *)
(* one trigger run in one workspace, whose local cache they share; the     *)
(* processes share nothing else but the shared tier of the storage.  The   *)
(* processes run one after another.                                        *)
(***************************************************************************)
EmptyCache == [Complete |-> {}, Local |-> <<>>, Modified |-> {}]

CacheOf(S) == [Complete |-> S.Complete, Local |-> S.Local, Modified |-> S.Modified]

\* The workspace the process of a node runs in.
AgentOf(n) ==
    <<CHOOSE g \in 1..Len(Farm.Script) : n \in Range(Farm.Script[g]), ControllingTrigger[n]>>

\* The scheduler starts the process of a node that is ready.
StartProcess ==
    /\ pc = "Done"
    /\ Farm.Started = {} => ExitCode = "Success"
    /\ \E n \in NameToNode \ Farm.Started :
          LET finished == Farm.Finished \cup
                             (IF SingleNode # NoNode /\ ExitCode = "Success"
                              THEN {SingleNode} ELSE {})
              caches == Put(Farm.Caches, Farm.Agent, CacheOf(Storage))
              cache == IF AgentOf(n) \in DOMAIN caches THEN caches[AgentOf(n)]
                       ELSE EmptyCache
          IN  /\ InputDependencies(n) \subseteq finished
              /\ Farm' = [Farm EXCEPT !.Caches = caches, !.Agent = AgentOf(n),
                                      !.Started = @ \cup {n}, !.Finished = finished]
              /\ Args' = [Args EXCEPT !.SingleNodeName = n, !.bListOnly = FALSE,
                                      !.bExport = FALSE]
              /\ Storage' = [Storage EXCEPT !.Complete = cache.Complete,
                                            !.Local = cache.Local,
                                            !.Modified = cache.Modified]
    /\ Groups' = Farm.Script
    /\ NameToNode' = AllNodes
    /\ pc' = "ParseParams"
    /\ ExitCode' = "Running"
    /\ Error' = "None"
    /\ TargetNodes' = {}
    /\ Triggers' = {}
    /\ SingleNode' = NoNode
    /\ NodesToExecute' = <<>>
    /\ CleanedNodes' = {}
    /\ NodeIdx' = 0
    /\ Caller' = "None"
    /\ StorageAtEntry' = Storage'
    /\ UNCHANGED <<InputNames, ControllingTrigger, Behaviour, Node, TagNameToFileSet,
                   ReferencedOutputs, OutputIdx, outputVars, mappingVars,
                   BuildLog, ArchiveLog, Marked, StorageAtRun, InputLog>>

\* A graph whose consumers are placed anywhere, built by logic that is the
\* one that left the shared manifests or has changed since, with the shared
\* tier empty or holding an output of an earlier run.
PackageChanged ==
    [AllGood EXCEPT !["Package"] = [Ok |-> TRUE, Outputs |-> [t \in {"Archive"} |-> {"b.obj"}]]]

FarmTriggers ==
    {g \in SharingTriggers : g["Compile"] = NoTrigger /\ (g["Package"] = NoTrigger \/ g["Publish"] # NoTrigger)}

FirstProcessChoices ==
    {[NothingLocal |-> TRUE, bListOnly |-> TRUE, bExport |-> FALSE],
     [NothingLocal |-> TRUE, bListOnly |-> FALSE, bExport |-> TRUE],
     [NothingLocal |-> TRUE, bListOnly |-> FALSE, bExport |-> FALSE],
     [NothingLocal |-> FALSE, bListOnly |-> FALSE, bExport |-> FALSE]}

DistributedScenarios ==
    {Scenario(i, l, g, b,
              IF f.NothingLocal THEN NothingLocal
              ELSE [NothingLocal EXCEPT !["Compile"] = "Complete"],
              h,
              [PlainArgs({"Publish"}) EXCEPT !.bListOnly = f.bListOnly,
                                             !.bExport = f.bExport,
                                             !.WriteToSharedStorage = w,
                                             !.SharedStorageDir = TRUE]) :
        i \in SharingInputs, l \in GroupLayouts, g \in FarmTriggers,
        b \in {AllGood, PackageChanged}, h \in {{}, {"Package"}},
        f \in FirstProcessChoices, w \in BOOLEAN}

DistributedInit ==
    \E sc \in DistributedScenarios :
        /\ EnterExecute(sc)
        /\ Farm = FarmFor(sc.Layout)

DistributedNext == Next \/ StartProcess

Distributed == DistributedInit /\ [][DistributedNext]_vars

(***************************************************************************)
(* FindFileToOutputNameMapping.  Nothing in Build calls it: it is run here *)
(* on its own, for any node, any file sets of the node's outputs and any   *)
(* dictionary that already holds up to MaxMapped files.                    *)
(***************************************************************************)
MaxMapped == 1

\* The inner loop over the files of an output: a file that is already in
\* the dictionary is an error and keeps its output name, any other file is
\* added under the output name.
RECURSIVE AddToOutput(_, _, _)
AddToOutput(mapping, OutputName, fileSet) ==
    IF fileSet = {} THEN [FileToOutputName |-> mapping, bResult |-> TRUE]
    ELSE LET File == CHOOSE f \in fileSet : TRUE
             rest == AddToOutput(IF File \in DOMAIN mapping THEN mapping
                                 ELSE Put(mapping, File, OutputName),
                                 OutputName, fileSet \ {File})
         IN  [rest EXCEPT !.bResult = @ /\ File \notin DOMAIN mapping]

\* Mutant: a file that is already in the dictionary is moved to the output
\* name.
MapOutputName_LastOwnerWins ==
    /\ pc = "FindFileToOutputNameMapping"
    /\ OutputIdx <= Len(OutputNames[Node])
    /\ LET OutputName == OutputNames[Node][OutputIdx]
       IN  IF OutputName \in DOMAIN TagNameToFileSet
           THEN LET fileSet == TagNameToFileSet[OutputName].Files
                IN  /\ FileToOutputName' =
                          [f \in (DOMAIN FileToOutputName) \cup fileSet |->
                              IF f \in fileSet THEN OutputName ELSE FileToOutputName[f]]
                    /\ bMappingResult' = (bMappingResult /\ fileSet \cap DOMAIN FileToOutputName = {})
           ELSE UNCHANGED <<FileToOutputName, bMappingResult>>
    /\ OutputIdx' = OutputIdx + 1
    /\ Continue("FindFileToOutputNameMapping")
    /\ UNCHANGED <<graphVars, nodeVars, Farm, Storage, Args, TargetNodes, Triggers, SingleNode,
                   allNodesVars, Caller, Node, TagNameToFileSet, ReferencedOutputs,
                   outputVars, historyVars, FileToOutputNameAtCall>>

\* One iteration of the loop over Node.OutputNames.
MapOutputName ==
    /\ pc = "FindFileToOutputNameMapping"
    /\ OutputIdx <= Len(OutputNames[Node])
    /\ LET OutputName == OutputNames[Node][OutputIdx]
       IN  IF OutputName \in DOMAIN TagNameToFileSet
           THEN LET added == AddToOutput(FileToOutputName, OutputName,
                                         TagNameToFileSet[OutputName].Files)
                IN  /\ FileToOutputName' = added.FileToOutputName
                    /\ bMappingResult' = (bMappingResult /\ added.bResult)
           ELSE UNCHANGED <<FileToOutputName, bMappingResult>>
    /\ OutputIdx' = OutputIdx + 1
    /\ Continue("FindFileToOutputNameMapping")
    /\ UNCHANGED <<graphVars, nodeVars, Farm, Storage, Args, TargetNodes, Triggers, SingleNode,
                   allNodesVars, Caller, Node, TagNameToFileSet, ReferencedOutputs,
                   outputVars, historyVars, FileToOutputNameAtCall>>

\* The loop is over: bResult is returned.
ReturnMapping ==
    /\ pc = "FindFileToOutputNameMapping"
    /\ OutputIdx > Len(OutputNames[Node])
    /\ pc' = "Done"
    /\ UNCHANGED <<graphVars, nodeVars, Farm, mappingVars, Storage, Args, TargetNodes,
                   Triggers, SingleNode, ExitCode, Error, allNodesVars, singleNodeVars,
                   outputVars, historyVars>>

\* The dictionaries of tag name to file set in which each output of the
\* node has a file set or no entry, and any other tag has no file set.
FileSetChoices(node) ==
    {[t \in AllTags \ missing |->
         IF t \in Range(OutputNames[node])
         THEN FileSet({ToFileReference(f) : f \in sets[t]}) ELSE Null] :
        missing \in SUBSET Range(OutputNames[node]),
        sets \in [Range(OutputNames[node]) -> SUBSET Files]}

\* The dictionaries of file to output name that hold up to MaxMapped files.
MappingChoices ==
    UNION {[{ToFileReference(f) : f \in held} -> AllTags] : held \in AtMost(Files, MaxMapped)}

\* The state in which FindFileToOutputNameMapping is entered.
MappingInit ==
    /\ Node \in AllNodes
    /\ TagNameToFileSet \in FileSetChoices(Node)
    /\ FileToOutputName \in MappingChoices
    /\ FileToOutputNameAtCall = FileToOutputName
    /\ bMappingResult = TRUE
    /\ OutputIdx = 1
    /\ pc = "FindFileToOutputNameMapping"
    /\ Groups = <<NodeOrder>>
    /\ NameToNode = AllNodes
    /\ InputNames = ChainInputs
    /\ ControllingTrigger = NoTriggers
    /\ Behaviour = AllGood
    /\ Args = PlainArgs({"Publish"})
    /\ Storage = InitialStorage(NothingLocal, {}, Args)
    /\ StorageAtEntry = Storage
    /\ TargetNodes = {}
    /\ Triggers = {}
    /\ SingleNode = NoNode
    /\ ExitCode = "Running"
    /\ Error = "None"
    /\ NodesToExecute = <<>>
    /\ CleanedNodes = {}
    /\ NodeIdx = 0
    /\ Caller = "None"
    /\ ReferencedOutputs = {}
    /\ Printed = NotPrinted
    /\ Exported = NotExported
    /\ BuildLog = <<>>
    /\ ArchiveLog = <<>>
    /\ Marked = {}
    /\ StorageAtRun = NoStorage
    /\ InputLog = <<>>
    /\ Farm = FarmFor(<<>>)

MappingNext == MapOutputName \/ ReturnMapping

MappingSpec == MappingInit /\ [][MappingNext]_vars


(***************************************************************************)
(* Properties.                                                             *)
(***************************************************************************)
Last(seq) == seq[Len(seq)]

InBuildAllNodes == Caller = "BuildAllNodes"

\* The graph has been culled: Execute is past the call of Graph.Select.
Culled ==
    /\ pc \notin {"ParseParams", "FindAvailableTasks", "ReadScript", "CreateStorage",
                 "ResolveTargets", "Select"}
    /\ Error \notin {"MissingScript", "MissingTarget", "NotATask", "MultipleHandlers",
                    "ScriptError", "UnknownTarget"}

\* The nodes reachable from the targets along chains of input dependencies.
DependencyPaths == UNION {[1..k -> AllNodes] : k \in 1..Cardinality(AllNodes)}

ReachableFrom(targets) ==
    {n \in AllNodes :
        \E path \in DependencyPaths :
            /\ path[1] \in targets
            /\ Last(path) = n
            /\ \A i \in 1..(Len(path) - 1) : path[i + 1] \in InputDependencies(path[i])}

\* The nodes a node depends on, directly or transitively.
UpstreamNodes(n) == ReachableFrom({n}) \ {n}

\* C1: after Graph.Select(T) the graph holds exactly the nodes of T and the
\* nodes reachable from T through InputDependencies, and no other node.
C1_SelectRetainsClosure ==
    Culled =>
        /\ NameToNode = ReachableFrom(TargetNodes)
        /\ Range(Flatten(Groups)) = ReachableFrom(TargetNodes)

\* C1 witness: a cull that keeps a dependency of the target and drops a node.
C1_Witness ==
    /\ pc = "FindTriggers"
    /\ NameToNode # TargetNodes
    /\ NameToNode # AllNodes

\* A node passes the claim's precondition: it was complete and intact when
\* BuildAllNodes was called.
CompleteAndIntact(n) ==
    /\ IsComplete(StorageAtRun, n)
    /\ CheckLocalIntegrity(StorageAtRun, n, OutputNames[n])

\* C2 as stated: a node that is complete and passes CheckLocalIntegrity does
\* not have its build logic invoked by BuildAllNodes.
C2_Original ==
    InBuildAllNodes =>
        \A n \in Range(NodesToExecute) : CompleteAndIntact(n) => n \notin Range(BuildLog)

\* C2 amended: a node that is complete and passes CheckLocalIntegrity, all of
\* whose direct and transitive dependencies pass it too, does not have its
\* build logic invoked by BuildAllNodes.
C2_CompleteAndIntactNotRebuilt ==
    InBuildAllNodes =>
        \A n \in Range(NodesToExecute) :
            (/\ CompleteAndIntact(n)
             /\ \A m \in UpstreamNodes(n) : CheckLocalIntegrity(StorageAtRun, m, OutputNames[m]))
                => n \notin Range(BuildLog)

\* C2 witness: a run that built a node and left a complete, intact one alone.
C2_Witness ==
    /\ InBuildAllNodes
    /\ pc = "Done"
    /\ BuildLog # <<>>
    /\ \E n \in Range(NodesToExecute) :
          /\ CompleteAndIntact(n)
          /\ UpstreamNodes(n) # {}
          /\ \A m \in UpstreamNodes(n) : CheckLocalIntegrity(StorageAtRun, m, OutputNames[m])

\* The nodes cleaned for this run: by the integrity pass, by -Clean or by
\* -CleanNode.
CleanedForRun ==
    CleanedNodes \cup (IF Args.bClean THEN AllNodes ELSE Args.CleanNodes)

\* The nodes of the selected graph that depend on a cleaned node.
DependentsOfCleaned ==
    {d \in Range(NodesToExecute) : UpstreamNodes(d) \cap CleanedForRun # {}}

IntegrityPassOver == InBuildAllNodes /\ pc # "CheckIntegrity"

\* C3 as stated: every node depending on a cleaned node is rebuilt in the run.
C3_Original ==
    (InBuildAllNodes /\ pc = "Done") =>
        \A d \in DependentsOfCleaned : d \in Range(BuildLog)

\* C3 amended: every node depending on a cleaned node is treated as
\* incomplete (it is complete only once this run has rebuilt it), and it is
\* rebuilt in the run unless the run stops at the failure of an earlier node.
C3_DependentsOfCleanedRebuilt ==
    IntegrityPassOver =>
        \A d \in DependentsOfCleaned :
            /\ IsComplete(Storage, d) => d \in Marked
            /\ (pc = "Done" /\ d \notin Range(BuildLog)) =>
                   /\ Error = "BuildFailed"
                   /\ BuildLog # <<>>
                   /\ PositionOf(Last(BuildLog)) < PositionOf(d)

\* C3 witness: a node that was complete and intact is rebuilt because a node
\* upstream of it was cleaned.
C3_Witness ==
    /\ InBuildAllNodes
    /\ pc = "Done"
    /\ ExitCode = "Success"
    /\ \E d \in DependentsOfCleaned : CompleteAndIntact(d) /\ d \in Range(BuildLog)

\* The build logic of a node leaves one file in two of its output tags.
AmbiguousOutputs(n) ==
    /\ Behaviour[n].Ok
    /\ \E t1, t2 \in Range(OutputNames[n]) :
          /\ t1 # t2
          /\ Behaviour[n].Outputs[t1] \cap Behaviour[n].Outputs[t2] # {}

ArchivedNodes == {ArchiveLog[i].Node : i \in 1..Len(ArchiveLog)}

\* C4: a node whose build logic left a file in two of its output tags has
\* none of its outputs archived and is not marked complete.
C4_AmbiguousOutputRejected ==
    \A n \in Range(BuildLog) :
        AmbiguousOutputs(n) => (n \notin ArchivedNodes /\ n \notin Marked)

\* Execute is past the computation of the active triggers.
TriggersFound ==
    /\ Culled
    /\ pc # "FindTriggers"
    /\ Error # "UnknownTrigger"

RECURSIVE NthParent(_, _)
NthParent(trigger, k) ==
    IF k = 0 \/ trigger = NoTrigger THEN trigger ELSE NthParent(Parent[trigger], k - 1)

IsSelfOrAncestor(a, trigger) ==
    \E k \in 0..Cardinality(NameToTrigger) : NthParent(trigger, k) = a

\* C5: the active triggers are the requested triggers and all their
\* ancestors, or every trigger of the graph under -SkipTriggers; requesting
\* Release makes QA active.
C5_ActiveTriggersUpwardClosed ==
    TriggersFound =>
        /\ Triggers =
              IF Args.bSkipTriggers THEN NameToTrigger
              ELSE {a \in NameToTrigger :
                      \E r \in Args.TriggerNames : IsSelfOrAncestor(a, r)}
        /\ "Release" \in Args.TriggerNames => "QA" \in Triggers

\* C5 witness: only Release was requested, and QA is active with it.
C5_Witness ==
    /\ TriggersFound
    /\ Args.TriggerNames = {"Release"}
    /\ ~Args.bSkipTriggers
    /\ Triggers = {"QA", "Release"}

\* C6: no node gated by an inactive trigger has its build logic invoked.
C6_InactiveTriggerNotBuilt ==
    \A n \in Range(BuildLog) :
        ControllingTrigger[n] = NoTrigger \/ ControllingTrigger[n] \in Triggers

\* C7: once a node's build fails in BuildAllNodes, no build logic is invoked
\* after it, the failed node and the later nodes are neither archived nor
\* marked complete, and BuildAllNodes returns failure.
C7_FailFast ==
    InBuildAllNodes =>
        /\ \A i \in 1..(Len(BuildLog) - 1) : Behaviour[BuildLog[i]].Ok
        /\ Error = "BuildFailed" =>
              /\ pc = "Done"
              /\ ExitCode = "Error_Unknown"
        /\ (BuildLog # <<>> /\ ~Behaviour[Last(BuildLog)].Ok) =>
              /\ Error = "BuildFailed"
              /\ \A n \in Range(NodesToExecute) :
                    PositionOf(n) >= PositionOf(Last(BuildLog)) =>
                        (n \notin ArchivedNodes /\ n \notin Marked)

\* C7 witness: a build failed after an earlier one succeeded, with a node
\* still to come.
C7_Witness ==
    /\ InBuildAllNodes
    /\ Error = "BuildFailed"
    /\ Len(BuildLog) > 1
    /\ \E n \in Range(NodesToExecute) : PositionOf(n) > PositionOf(Last(BuildLog))

\* C8: when BuildAllNodes invokes a node's build logic every node in its
\* InputDependencies is marked complete, and builds are invoked in the order
\* of the graph; with Compile -> Package the order is [Compile, Package].
C8_DependencyOrder ==
    InBuildAllNodes =>
        /\ pc = "Build" => \A d \in InputDependencies(Node) : IsComplete(Storage, d)
        /\ \A i, j \in 1..Len(BuildLog) :
              i < j => /\ PositionOf(BuildLog[i]) < PositionOf(BuildLog[j])
                       /\ BuildLog[j] \notin InputDependencies(BuildLog[i])

\* C8 witness: Package is about to be built after Compile was built.
C8_Witness ==
    /\ InBuildAllNodes
    /\ pc = "Build"
    /\ Node = "Package"
    /\ "Compile" \in InputDependencies(Node)
    /\ BuildLog = <<"Compile">>

\* C9: when a node's build logic is invoked every input tag holds the files
\* of the manifest Retreive returns for it, and a complete upstream node was
\* not rebuilt to obtain them.
C9_InputsFromManifests ==
    pc = "Build" =>
        /\ \A t \in Range(InputNames[Node]) :
              /\ <<OutputNameToNode[t], t>> \in DOMAIN Storage.Local
              /\ ~TagNameToFileSet[t].IsNull
              /\ TagNameToFileSet[t].Files =
                    {ToFileReference(f) : f \in Storage.Local[<<OutputNameToNode[t], t>>]}
        /\ \A d \in InputDependencies(Node) :
              (IsComplete(Storage, d) /\ d \notin Marked) => d \notin Range(BuildLog)

\* C9 witness: a node is about to be built with an input of a node that was
\* complete already and was not built in this run.
C9_Witness ==
    /\ pc = "Build"
    /\ \E t \in Range(InputNames[Node]) :
          /\ TagNameToFileSet[t].Files # {}
          /\ IsComplete(Storage, OutputNameToNode[t])
          /\ OutputNameToNode[t] \notin Range(BuildLog)

\* C10: a node marked complete by BuildSingleNode has a local manifest for
\* each of its outputs.
C10_MarkedAfterArchive ==
    \A n \in Marked :
        /\ IsComplete(Storage, n)
        /\ \A t \in Range(OutputNames[n]) : <<n, t>> \in DOMAIN Storage.Local

\* C10 witness: the node with two outputs was marked complete.
C10_Witness ==
    /\ "Compile" \in Marked
    /\ Len(OutputNames["Compile"]) > 1

\* The build logic of the node at hand is about to be invoked and will fail.
BuildAboutToFail == pc = "Build" /\ ~Behaviour[Node].Ok

\* C11: the step in which a node's build logic reports failure leaves the
\* storage as it was, archives nothing, marks nothing complete, and returns
\* failure; the failed node has no archived output and was not marked.
C11_FailedBuildLeavesStorage ==
    [][BuildAboutToFail =>
          /\ Storage' = Storage
          /\ ArchiveLog' = ArchiveLog
          /\ Marked' = Marked
          /\ Node \notin ArchivedNodes'
          /\ Node \notin Marked'
          /\ pc' = "Done"
          /\ ExitCode' = "Error_Unknown"
          /\ Error' = "BuildFailed"]_vars

\* C11 witness: a build failed in a run that had archived an earlier node.
C11_Witness ==
    /\ pc = "Done"
    /\ Error = "BuildFailed"
    /\ ~Behaviour[Last(BuildLog)].Ok
    /\ ArchiveLog # <<>>
    /\ Storage.Local # <<>>

\* The manifest of an output is in neither tier of the storage.
AbsentFromBothTiers(S, n, o) ==
    /\ <<n, o>> \notin DOMAIN S.Local
    /\ ~(S.SharedDir /\ <<n, o>> \in DOMAIN S.Shared)

\* BuildSingleNode is about to fetch the inputs of a node, one of which has
\* no manifest in either tier.
InputManifestMissing ==
    /\ pc = "FetchInputs"
    /\ \E t \in Range(InputNames[Node]) :
          AbsentFromBothTiers(Storage, OutputNameToNode[t], t)

\* C12: when the manifest of an input tag of a node is in neither tier,
\* building the node fails with MissingOutput; its build logic is not
\* invoked, nothing is archived and no node is marked complete.
C12_MissingInputFails ==
    [][InputManifestMissing =>
          /\ pc' = "Done"
          /\ ExitCode' # "Success"
          /\ Error' = "MissingOutput"
          /\ BuildLog' = BuildLog
          /\ Node \notin Range(BuildLog')
          /\ ArchiveLog' = ArchiveLog
          /\ Node \notin ArchivedNodes'
          /\ Marked' = Marked
          /\ Storage'.Complete = Storage.Complete
          /\ Storage'.Shared = Storage.Shared]_vars

\* C12 witness: a node was run on its own with the manifest of its input in
\* neither tier, and the run ended with MissingOutput.
C12_Witness ==
    /\ pc = "Done"
    /\ Error = "MissingOutput"
    /\ SingleNode # NoNode
    /\ \E t \in Range(InputNames[SingleNode]) :
          AbsentFromBothTiers(Storage, OutputNameToNode[t], t)

\* The nodes that were marked complete when BuildAllNodes was called and
\* fail the local integrity check.
FailedIntegrity ==
    {n \in Range(NodesToExecute) :
        /\ IsComplete(StorageAtRun, n)
        /\ ~CheckLocalIntegrity(StorageAtRun, n, OutputNames[n])}

NoBuildFailed == \A i \in 1..Len(BuildLog) : Behaviour[BuildLog[i]].Ok

\* C13: a node marked complete that fails CheckLocalIntegrity is cleaned by
\* BuildAllNodes and no error comes of it: the only error of the run is a
\* failed build step.  When no build step fails the node is rebuilt in the
\* run and the run returns success with every node of the graph complete
\* and intact, as a run from an empty local cache does.
C13_IntegrityFailureSelfHeals ==
    IntegrityPassOver =>
        /\ FailedIntegrity \subseteq CleanedNodes
        /\ \A n \in FailedIntegrity : IsComplete(Storage, n) => n \in Marked
        /\ Error \in {"None", "BuildFailed"}
        /\ Error = "BuildFailed" => ~NoBuildFailed
        /\ (pc = "Done" /\ NoBuildFailed) =>
              /\ ExitCode = "Success"
              /\ FailedIntegrity \subseteq Range(BuildLog)
              /\ \A n \in Range(NodesToExecute) :
                    /\ IsComplete(Storage, n)
                    /\ CheckLocalIntegrity(Storage, n, OutputNames[n])

\* C13 witness: a run returned success after rebuilding a node that was
\* marked complete with files changed since, and left another node alone.
C13_Witness ==
    /\ InBuildAllNodes
    /\ pc = "Done"
    /\ ExitCode = "Success"
    /\ \E n \in FailedIntegrity :
          /\ \E t \in Range(OutputNames[n]) : <<n, t>> \in StorageAtRun.Modified
          /\ n \in Range(BuildLog)
    /\ Range(NodesToExecute) \ Range(BuildLog) # {}

\* The agent group a node of the graph is in.
GroupOf(n) == CHOOSE g \in 1..Len(Groups) : n \in Range(Groups[g])

\* The nodes of the graph that list a tag among their input names.
ConsumersOf(o) == {c \in NameToNode : o \in Range(InputNames[c])}

OutsideAgentScope(c, n) ==
    \/ GroupOf(c) # GroupOf(n)
    \/ ControllingTrigger[c] # ControllingTrigger[n]

\* C14: every Archive call for an output of the node being built has
\* mustPushToShared true if and only if a node of the graph that lists the
\* output among its input names is in another agent group, or in the same
\* group with another controlling trigger.
C14_PushIffConsumedElsewhere ==
    \A i \in 1..Len(ArchiveLog) :
        LET e == ArchiveLog[i]
        IN  e.mustPushToShared <=>
                \E c \in ConsumersOf(e.OutputName) : OutsideAgentScope(c, e.Node)

\* C14 witness: one output went to shared storage only because its consumer,
\* in the producer's group, has another trigger; another output, consumed in
\* the producer's group behind the producer's trigger, did not.
C14_Witness ==
    \E i, j \in 1..Len(ArchiveLog) :
        /\ ArchiveLog[i].mustPushToShared
        /\ \A c \in ConsumersOf(ArchiveLog[i].OutputName) :
              GroupOf(c) = GroupOf(ArchiveLog[i].Node)
        /\ ~ArchiveLog[j].mustPushToShared
        /\ ConsumersOf(ArchiveLog[j].OutputName) # {}

ManifestKey(t) == <<OutputNameToNode[t], t>>

InLocalTier(S, k) == k \in DOMAIN S.Local
OnlyInSharedTier(S, k) == k \notin DOMAIN S.Local /\ S.SharedDir /\ k \in DOMAIN S.Shared

\* The Archive call that was made last for a key, if any.
LastArchiveOf(k) ==
    LET calls == {i \in 1..Len(ArchiveLog) :
                     <<ArchiveLog[i].Node, ArchiveLog[i].OutputName>> = k}
    IN  IF calls = {} THEN 0 ELSE CHOOSE i \in calls : \A j \in calls : j <= i

\* What the fetch of the inputs of a node does to one input whose manifest
\* is in a tier, when the manifest of every input is.
RetreivedAsStored(t) ==
    LET k == ManifestKey(t)
    IN  /\ InLocalTier(Storage, k) =>
              /\ Storage'.Local[k] = Storage.Local[k]
              /\ t \in DOMAIN TagNameToFileSet'
              /\ TagNameToFileSet'[t] =
                    FileSet({ToFileReference(f) : f \in Storage.Local[k]})
        /\ OnlyInSharedTier(Storage, k) =>
              /\ InLocalTier(Storage', k)
              /\ Storage'.Local[k] = Storage.Shared[k]
              /\ t \in DOMAIN TagNameToFileSet'
              /\ TagNameToFileSet'[t] =
                    FileSet({ToFileReference(f) : f \in Storage.Shared[k]})

\* Retreive finds every pair that was archived, with the files of the last
\* Archive call for it, and they are the files handed to the build logic.
RetreiveGivesArchived ==
    \A n \in AllNodes : \A o \in Range(OutputNames[n]) :
        LET i == LastArchiveOf(<<n, o>>)
            archived == {MakeRelativeTo(f) : f \in ArchiveLog[i].Files}
        IN  i # 0 =>
               /\ Retreive(Storage, n, o).Found
               /\ Retreive(Storage, n, o).Manifest = archived
               /\ (pc = "Build" /\ o \in Range(InputNames[Node])) =>
                      TagNameToFileSet[o].Files = ArchiveLog[i].Files

\* C16: Retreive gives the local manifest when there is one; when only the
\* shared tier has the output the manifest is in the local cache afterwards
\* and it is the shared one; and the manifest in a tier is the one that was
\* archived: the files of the last Archive call for the pair, relative to
\* the root.
C16_RetreiveReturnsArchived ==
    [][/\ (pc = "FetchInputs" /\ ~InputManifestMissing) =>
             /\ \A t \in Range(InputNames[Node]) : RetreivedAsStored(t)
             /\ Storage'.Shared = Storage.Shared
       /\ RetreiveGivesArchived']_vars

\* C16 witness: a node run on its own is about to be built with the files of
\* an input whose manifest was only in the shared tier and is now local too.
C16_Witness ==
    /\ pc = "Build"
    /\ \E t \in Range(InputNames[Node]) :
          /\ OnlyInSharedTier(StorageAtRun, ManifestKey(t))
          /\ InLocalTier(Storage, ManifestKey(t))
          /\ TagNameToFileSet[t].Files # {}

\* The configuration errors: a target that is neither a node nor an output
\* tag of the graph, a trigger that is not in the graph, and two task
\* handlers with one element name among the classes looked into.
UnknownTarget == \E name \in Args.TargetNames : name \notin AllNodes \cup AllTags

UnknownTrigger == \E name \in Args.TriggerNames : name \notin NameToTrigger

MultipleHandlers ==
    LET classes == LoadedClasses(Args.TaskClasses, Args.bPublicTasksOnly)
    IN  \E i, j \in 1..Len(classes) : i < j /\ classes[i].Name = classes[j].Name

BeforeExecution ==
    pc \in {"ParseParams", "FindAvailableTasks", "ReadScript", "CreateStorage",
            "ResolveTargets", "Select", "FindTriggers", "Done"}

\* C17: on a configuration error Execute returns failure and execution never
\* starts: no build logic is invoked, nothing is archived and no node is
\* marked complete.
C17_ConfigurationErrorStopsExecute ==
    (UnknownTarget \/ UnknownTrigger \/ MultipleHandlers) =>
        /\ BeforeExecution
        /\ pc = "Done" => (ExitCode = "Error_Unknown" /\ Error # "None")
        /\ BuildLog = <<>>
        /\ ArchiveLog = <<>>
        /\ Marked = {}
        /\ ~Printed.Called
        /\ ~Exported.Called

\* C17 witness: Execute returned failure for a trigger that is not in the
\* graph, after it had culled the graph to a target that is in it, with a
\* node still to build.
C17_Witness ==
    /\ pc = "Done"
    /\ Error = "UnknownTrigger"
    /\ ~UnknownTarget
    /\ ~MultipleHandlers
    /\ \E n \in NameToNode : ~IsComplete(Storage, n)

\* A process started by the scheduler is running or has returned.
InFarmProcess == Farm.Started # {}

SharedWritingEnabled == Args.SharedStorageDir /\ bWriteToSharedStorage(Args)

\* The input tags of a node that are produced outside its agent scope.
InputsFromElsewhere(n) ==
    {t \in Range(InputNames[n]) : OutsideAgentScope(OutputNameToNode[t], n)}

\* C18: in a distributed run with shared writing enabled, from the start of
\* the process of a node on, every input of the node produced in another
\* agent group or behind another trigger is in shared storage, with the
\* manifest its producer archived, and no Retreive fails.
C18_InputsFromElsewhereInShared ==
    (InFarmProcess /\ SharedWritingEnabled) =>
        /\ Error # "MissingOutput"
        /\ \A t \in InputsFromElsewhere(Args.SingleNodeName) :
              LET i == LastArchiveOf(ManifestKey(t))
              IN  /\ i # 0
                  /\ ManifestKey(t) \in DOMAIN Storage.Shared
                  /\ Storage.Shared[ManifestKey(t)] =
                        {MakeRelativeTo(f) : f \in ArchiveLog[i].Files}
        /\ pc = "FetchInputs" =>
              \A t \in Range(InputNames[Node]) :
                  Retreive(Storage, OutputNameToNode[t], t).Found

\* C18 witness: after an export, the process of a node is about to build it
\* with an input from another agent group that its workspace did not hold
\* and shared storage did.
C18_Witness ==
    /\ InFarmProcess
    /\ SharedWritingEnabled
    /\ Exported.Called
    /\ pc = "Build"
    /\ \E t \in InputsFromElsewhere(Node) :
          /\ GroupOf(OutputNameToNode[t]) # GroupOf(Node)
          /\ OnlyInSharedTier(StorageAtRun, ManifestKey(t))
          /\ TagNameToFileSet[t].Files # {}

\* An Archive call is about to copy an output to the shared tier.
ArchivingToShared(k) ==
    /\ pc = "Archive"
    /\ OutputIdx <= Len(OutputNames[Node])
    /\ k = <<Node, OutputNames[Node][OutputIdx]>>
    /\ k[2] \in ReferencedOutputs
    /\ Storage.SharedDir
    /\ Storage.bWriteToSharedStorage

\* The Archive calls that copied a pair to the shared tier, and the builds
\* of a node.
SharedArchivesOf(k) ==
    {i \in 1..Len(ArchiveLog) :
        /\ <<ArchiveLog[i].Node, ArchiveLog[i].OutputName>> = k
        /\ ArchiveLog[i].mustPushToShared
        /\ SharedWritingEnabled}

BuildsOf(n) == {i \in 1..Len(BuildLog) : BuildLog[i] = n}

SharedArchivesWithinBuilds ==
    \A n \in AllNodes : \A o \in Range(OutputNames[n]) :
        Cardinality(SharedArchivesOf(<<n, o>>)) <= Cardinality(BuildsOf(n))

\* C19 as stated: a pair that is in shared storage is never archived to
\* shared storage again.
C19_Original ==
    [][\A k \in DOMAIN Storage.Shared : ~ArchivingToShared(k)]_vars

\* C19 amended: a process writes to shared storage only the outputs of the
\* node it builds, once for each build of the node; a manifest in shared
\* storage changes only when its node is built again.
C19_PublishedOncePerBuild ==
    [][/\ \A k \in DOMAIN Storage'.Shared :
             (k \notin DOMAIN Storage.Shared \/ Storage'.Shared[k] # Storage.Shared[k]) =>
                 /\ ArchivingToShared(k)
                 /\ Last(BuildLog) = k[1]
       /\ SharedArchivesWithinBuilds']_vars

\* C19 witness: a pair that was in shared storage was archived to it again,
\* by a second build of its node, with another manifest.
C19_Witness ==
    \E n \in AllNodes : \E o \in Range(OutputNames[n]) :
        /\ Cardinality(BuildsOf(n)) = 2
        /\ Cardinality(SharedArchivesOf(<<n, o>>)) = 2
        /\ <<n, o>> \in DOMAIN Storage.Shared
        /\ Storage.Shared[<<n, o>>] # PriorManifest(o)

\* The builds of one node get the same files for every input tag.
SameInputsForEveryBuild ==
    \A i, j \in 1..Len(InputLog) :
        InputLog[i].Node = InputLog[j].Node => InputLog[i].Inputs = InputLog[j].Inputs

MissingParameter == {"Script", "Target"} \ Args.Params # {}

NotATask ==
    LET classes == LoadedClasses(Args.TaskClasses, Args.bPublicTasksOnly)
    IN  \E i \in 1..Len(classes) : ~classes[i].IsCustomTask

RequestedNodes ==
    (Args.TargetNames \cap AllNodes) \cup {OutputNameToNode[t] : t \in Args.TargetNames \cap AllTags}

UnknownSingleNode ==
    /\ Args.SingleNodeName # NoNode
    /\ Args.SingleNodeName \notin ReachableFrom(RequestedNodes)

ConfigurationError ==
    \/ MissingParameter
    \/ NotATask
    \/ MultipleHandlers
    \/ ~Args.bScriptReads
    \/ UnknownTarget
    \/ UnknownTrigger
    \/ UnknownSingleNode

Returned == pc = "Done"

\* C21 as stated: Execute returns success if and only if there was no
\* configuration error and no build it attempted failed, and it returns the
\* generic failure status otherwise.
C21_Original ==
    Returned =>
        /\ ExitCode = "Success" <=> (~ConfigurationError /\ NoBuildFailed)
        /\ ExitCode # "Success" => ExitCode = "Error_Unknown"

\* C21 amended: Execute returns success if and only if there was no
\* configuration error, no input manifest was missing and no build it
\* attempted failed; on a configuration error or a failed build it returns
\* the generic failure status, and on a missing input manifest it returns no
\* status: the exception leaves it.
C21_ExitStatus ==
    Returned =>
        /\ ExitCode = "Success" <=>
              (~ConfigurationError /\ NoBuildFailed /\ Error # "MissingOutput")
        /\ (ConfigurationError \/ ~NoBuildFailed) <=> ExitCode = "Error_Unknown"
        /\ Error = "MissingOutput" <=> ExitCode = "Exception"
        /\ ExitCode = "Success" <=> Error = "None"

\* C21 witness: Execute returned failure for a command line with -Script
\* and without -Target.
C21_Witness ==
    /\ Returned
    /\ Args.Params = {"Script"}
    /\ ExitCode = "Error_Unknown"
    /\ Error = "MissingTarget"

ListOrExport == Args.bListOnly \/ Args.bExport

Executing == pc \in {"CheckIntegrity", "ExecuteNodes", "FetchInputs", "Build", "Archive"}

\* No build logic was invoked, nothing was archived and no node was marked;
\* when Execute has returned success the graph was printed, and exported
\* unless -ListOnly was given.
OnlyPrintedOrExported ==
    /\ ~Executing
    /\ Caller = "None"
    /\ BuildLog = <<>>
    /\ ArchiveLog = <<>>
    /\ Marked = {}
    /\ (Returned /\ ExitCode = "Success") =>
          /\ Printed.Called
          /\ Exported.Called <=> ~Args.bListOnly

\* C22: with -ListOnly or -Export, with or without -SingleNode, the graph
\* is printed or exported and not executed: no build logic is invoked,
\* nothing is archived, no completion marker and no manifest is written.
C22_ListOrExportDoesNotExecute ==
    [][ListOrExport =>
          /\ OnlyPrintedOrExported'
          /\ Storage'.Complete \subseteq Storage.Complete
          /\ DOMAIN Storage'.Local \subseteq DOMAIN Storage.Local
          /\ Storage'.Shared = Storage.Shared]_vars

\* C22 witness: Execute returned after an export with -SingleNode naming a
\* node of the graph that is not complete.
C22_Witness ==
    /\ Returned
    /\ Args.bExport
    /\ ~Args.bListOnly
    /\ SingleNode # NoNode
    /\ ~IsComplete(Storage, SingleNode)
    /\ Exported.Called

\* Execute is running the node named by -SingleNode, or has run it.
RunningSingleNode == SingleNode # NoNode /\ ~ListOrExport /\ pc # "Run"

\* The Archive calls made, as pairs of node and output name, in order.
ArchivedPairs == [i \in 1..Len(ArchiveLog) |-> <<ArchiveLog[i].Node, ArchiveLog[i].OutputName>>]

OutputPairs(n) == [i \in 1..Len(OutputNames[n]) |-> <<n, OutputNames[n][i]>>]

\* C23 as stated: with -SingleNode=N the build logic of N is invoked exactly
\* once and that of no other node, and no other node is archived or marked.
C23_Original ==
    (RunningSingleNode /\ Returned) =>
        /\ BuildLog = <<SingleNode>>
        /\ ArchivedNodes \subseteq {SingleNode}
        /\ Marked \subseteq {SingleNode}

\* C23 amended: with -SingleNode=N the build logic of no other node is
\* invoked and that of N at most once, and exactly once unless an input
\* manifest of N is missing; no other node is archived or marked, and when
\* the build of N succeeds each output of N is archived once and N is
\* marked complete.
C23_OnlySingleNodeRuns ==
    RunningSingleNode =>
        /\ pc \notin {"CheckIntegrity", "ExecuteNodes"}
        /\ BuildLog \in {<<>>, <<SingleNode>>}
        /\ ArchivedNodes \subseteq {SingleNode}
        /\ Marked \subseteq {SingleNode}
        /\ Storage.Complete \ StorageAtRun.Complete \subseteq {SingleNode}
        /\ Returned =>
              /\ BuildLog = <<>> <=> Error = "MissingOutput"
              /\ ExitCode = "Success" <=> (BuildLog # <<>> /\ Behaviour[SingleNode].Ok)
              /\ ExitCode = "Success" =>
                    /\ ArchivedPairs = OutputPairs(SingleNode)
                    /\ Marked = {SingleNode}
              /\ ExitCode # "Success" => (ArchiveLog = <<>> /\ Marked = {})

\* C23 witness: a node was run on its own and marked complete while the
\* node it depends on and the node that depends on it are not complete.
C23_Witness ==
    /\ RunningSingleNode
    /\ Returned
    /\ SingleNode = "Package"
    /\ Marked = {"Package"}
    /\ InputDependencies("Package") = {"Compile"}
    /\ ~IsComplete(Storage, "Compile")
    /\ ~IsComplete(Storage, "Publish")

\* The nodes the command line asks to clean.
CleanRequested == IF Args.bClean THEN AllNodes ELSE Args.CleanNodes

\* The run stopped at the failure of a node that comes before the given one.
EarlierNodeFailed(n) ==
    /\ Error = "BuildFailed"
    /\ BuildLog # <<>>
    /\ PositionOf(Last(BuildLog)) < PositionOf(n)

\* C24: a node of the selected graph that -Clean or -CleanNode cleaned is
\* not complete when BuildAllNodes starts, is complete afterwards only once
\* this run has built it, and has its build logic invoked in the run unless
\* the run stops at the failure of an earlier node.
C24_CleaningForcesReexecution ==
    InBuildAllNodes =>
        \A n \in Range(NodesToExecute) \cap CleanRequested :
            /\ ~IsComplete(StorageAtRun, n)
            /\ IsComplete(Storage, n) => n \in Marked
            /\ (Returned /\ n \notin Range(BuildLog)) => EarlierNodeFailed(n)

\* C24 witness: with -CleanNode=Package a run left Compile, complete and
\* intact, alone, and built Package and after it Publish, which was marked
\* complete when the run started.
C24_Witness ==
    /\ InBuildAllNodes
    /\ Returned
    /\ Args.CleanNodes = {"Package"}
    /\ CompleteAndIntact("Compile")
    /\ IsComplete(StorageAtRun, "Publish")
    /\ BuildLog = <<"Package", "Publish">>

\* The outputs of a sequence of nodes, in order.
RECURSIVE PairsOf(_)
PairsOf(nodes) ==
    IF nodes = <<>> THEN <<>> ELSE OutputPairs(Head(nodes)) \o PairsOf(Tail(nodes))

IsPrefix(a, b) == Len(a) <= Len(b) /\ a = SubSeq(b, 1, Len(a))

Front(seq) == SubSeq(seq, 1, Len(seq) - 1)

InBuildSingleNode == pc \in {"FetchInputs", "Build", "Archive"}

\* C25: in BuildAllNodes one node is executing at a time: the archive calls
\* follow the builds node by node, every node built before the last one has
\* all its outputs archived and is marked, and when the loop considers the
\* next node no node is being built and the node built last is finished; a
\* failed node ends the run with no node considered after it.
C25_OneNodeAtATime ==
    InBuildAllNodes =>
        /\ IsPrefix(ArchivedPairs, PairsOf(BuildLog))
        /\ Marked \subseteq Range(BuildLog)
        /\ BuildLog # <<>> =>
              /\ IsPrefix(PairsOf(Front(BuildLog)), ArchivedPairs)
              /\ Range(Front(BuildLog)) \subseteq Marked
        /\ InBuildSingleNode =>
              /\ Node = NodesToExecute[NodeIdx]
              /\ Node \notin Marked
              /\ IF pc = "Archive" THEN Last(BuildLog) = Node
                 ELSE Node \notin Range(BuildLog)
        /\ pc = "ExecuteNodes" =>
              /\ Node = NoNode
              /\ ArchivedPairs = PairsOf(BuildLog)
              /\ Marked = Range(BuildLog)
        /\ (Returned /\ Error = "BuildFailed") =>
              /\ NodesToExecute[NodeIdx] = Last(BuildLog)
              /\ ArchivedPairs = PairsOf(Front(BuildLog))
              /\ Marked = Range(Front(BuildLog))

\* C25 witness: the loop is about to consider the third node after the
\* first, which has two outputs, and the second were built, archived and
\* marked.
C25_Witness ==
    /\ InBuildAllNodes
    /\ pc = "ExecuteNodes"
    /\ NodeIdx = 3
    /\ NodeIdx <= Len(NodesToExecute)
    /\ BuildLog = <<"Compile", "Package">>
    /\ Len(ArchiveLog) = 3

\* C26: within one run of BuildAllNodes the build logic of a node is invoked
\* at most once, and the build logic of no node is invoked after one has
\* failed: a failed build is the last of the run, which has returned.
C26_NoRetry ==
    InBuildAllNodes =>
        /\ \A n \in AllNodes : Cardinality(BuildsOf(n)) <= 1
        /\ \A i \in 1..Len(BuildLog) :
              ~Behaviour[BuildLog[i]].Ok => (i = Len(BuildLog) /\ Returned)

\* C26 witness: a run ended at the failure of the second node it built.
C26_Witness ==
    /\ InBuildAllNodes
    /\ Returned
    /\ BuildLog = <<"Compile", "Package">>
    /\ ~Behaviour["Package"].Ok
    /\ ExitCode = "Error_Unknown"

\* The nodes of the graph that list a tag among their output names.
ProducersOf(t) == {n \in NameToNode : t \in Range(OutputNames[n])}

\* C27: in every state of the graph, before Graph.Select and after it, no
\* tag name is among the output names of two nodes, and OutputNameToNode
\* maps every input name of a node of the graph to the one node of the
\* graph that produces it.
C27_OneProducerPerTag ==
    /\ NameToNode = Range(Flatten(Groups))
    /\ \A t \in AllTags : Cardinality(ProducersOf(t)) <= 1
    /\ \A n \in NameToNode : \A t \in Range(InputNames[n]) :
          /\ t \in DOMAIN OutputNameToNode
          /\ ProducersOf(t) = {OutputNameToNode[t]}
    /\ InBuildSingleNode => Node \in NameToNode

\* C27 witness: the inputs of a node are about to be fetched in a graph
\* that Graph.Select has culled to the node and its producer.
C27_Witness ==
    /\ pc = "FetchInputs"
    /\ NameToNode = {"Compile", "Package"}
    /\ Node = "Package"
    /\ \E t \in Range(InputNames[Node]) : OutputNameToNode[t] = "Compile"

RECURSIVE IsSubsequence(_, _)
IsSubsequence(a, b) ==
    IF a = <<>> THEN TRUE
    ELSE IF b = <<>> THEN FALSE
    ELSE IF Head(a) = Head(b) THEN IsSubsequence(Tail(a), Tail(b))
    ELSE IsSubsequence(a, Tail(b))

\* The groups after are the groups before that keep a node, in their order,
\* each with the nodes it keeps, in their order.
SurvivingGroups(before, after, retained) ==
    \E f \in [1..Len(after) -> 1..Len(before)] :
        /\ \A i, j \in 1..Len(after) : i < j => f[i] < f[j]
        /\ \A i \in 1..Len(after) :
              /\ IsSubsequence(after[i], before[f[i]])
              /\ Range(after[i]) = Range(before[f[i]]) \cap retained

\* The order BuildAllNodes executes in is the order of the script without
\* the nodes that were culled.
ExecutesInScriptOrder ==
    InBuildAllNodes =>
        /\ NodesToExecute = Flatten(Groups)
        /\ IsSubsequence(NodesToExecute, NodeOrder)
        /\ Range(NodesToExecute) = NameToNode

\* C28: Graph.Select keeps the surviving nodes in their groups and in their
\* order, keeps the surviving groups in their order and drops the groups
\* left with no node, so that the flattened order after it, which is the
\* order BuildAllNodes executes in, is a subsequence of the order before.
C28_SelectPreservesOrder ==
    [][/\ pc = "Select" =>
             /\ \A g \in 1..Len(Groups') : Groups'[g] # <<>>
             /\ Range(Flatten(Groups')) = NameToNode'
             /\ SurvivingGroups(Groups, Groups', NameToNode')
             /\ IsSubsequence(Flatten(Groups'), Flatten(Groups))
       /\ ExecutesInScriptOrder']_vars

\* C28 witness: Graph.Select dropped the node in the middle of the order
\* and left two groups of one node.
C28_Witness ==
    /\ pc = "FindTriggers"
    /\ Args.TargetNames = {"Publish"}
    /\ NameToNode = {"Compile", "Publish"}
    /\ Groups = <<(<<"Compile">>), (<<"Publish">>)>>

\* The nodes of the culled graph that have a completion marker in the local
\* storage.
MarkedComplete == {n \in NameToNode : n \in Storage.Complete}

\* C29: the completed nodes handed to Graph.Print and to Graph.Export are
\* the nodes of the culled graph that have a completion marker in the local
\* storage at that moment, and no other node.
C29_CompletedNodesAreMarked ==
    /\ Printed.Called => (Culled /\ Printed.CompletedNodes = MarkedComplete)
    /\ Exported.Called =>
          /\ Printed.Called
          /\ Exported.CompletedNodes = MarkedComplete
          /\ Exported.Groups = Groups

\* C29 witness: the graph was exported with a node that is complete and a
\* node that is not, while a node that was culled is complete and a
\* complete node of the graph has files changed since.
C29_Witness ==
    /\ Exported.Called
    /\ Exported.CompletedNodes # {}
    /\ NameToNode \ Exported.CompletedNodes # {}
    /\ Storage.Complete \ NameToNode # {}
    /\ \E n \in Exported.CompletedNodes :
          ~CheckLocalIntegrity(Storage, n, OutputNames[n])

\* The run of BuildAllNodes over a node order that is not divided into
\* agent groups: the integrity pass, and then the builds, their inputs and
\* the storage they leave, with no output required in shared storage.
RECURSIVE UngroupedIntegrityPass(_, _, _)
UngroupedIntegrityPass(S, order, cleaned) ==
    IF order = <<>> THEN S
    ELSE LET n == Head(order)
         IN  IF \/ InputDependencies(n) \cap cleaned # {}
                \/ ~CheckLocalIntegrity(S, n, OutputNames[n])
             THEN UngroupedIntegrityPass(CleanLocalNode(S, n), Tail(order), cleaned \cup {n})
             ELSE UngroupedIntegrityPass(S, Tail(order), cleaned)

RECURSIVE ArchivedLocally(_, _, _)
ArchivedLocally(S, n, i) ==
    IF i > Len(OutputNames[n]) THEN S
    ELSE LET o == OutputNames[n][i]
             files == {ToFileReference(f) : f \in Behaviour[n].Outputs[o]}
         IN  ArchivedLocally(Archive(S, n, o, files, FALSE), n, i + 1)

RECURSIVE UngroupedExecution(_, _, _)
UngroupedExecution(S, order, builds) ==
    IF order = <<>> THEN [Ok |-> TRUE, Storage |-> S, Builds |-> builds]
    ELSE LET n == Head(order)
             fetched == FetchInputsFrom(S, <<>>, InputNames[n], 1)
             built == Append(builds, [Node |-> n, Inputs |-> fetched.Tags])
         IN  IF IsComplete(S, n) THEN UngroupedExecution(S, Tail(order), builds)
             ELSE IF ~fetched.Ok
                  THEN [Ok |-> FALSE, Storage |-> fetched.Storage, Builds |-> builds]
             ELSE IF ~Behaviour[n].Ok
                  THEN [Ok |-> FALSE, Storage |-> fetched.Storage, Builds |-> built]
             ELSE UngroupedExecution(
                      MarkAsComplete(ArchivedLocally(fetched.Storage, n, 1), n),
                      Tail(order), built)

UngroupedRun ==
    LET order == Where(NodeOrder, NameToNode)
    IN  UngroupedExecution(UngroupedIntegrityPass(StorageAtRun, order, {}), order, <<>>)

\* The builds invoked so far, each with the files of its input tags.
BuildsWithInputs ==
    [i \in 1..Len(InputLog) |-> [Node |-> InputLog[i].Node, Inputs |-> InputLog[i].Inputs]]

\* C30: whatever the division of the nodes into agent groups, BuildAllNodes
\* invokes the builds of the run over the undivided order, in that order
\* and with the same files in every input tag, and it leaves the local
\* manifests and the completion markers and returns the result of that run.
C30_GroupsDoNotAffectLocalRun ==
    InBuildAllNodes =>
        /\ IsPrefix(BuildsWithInputs, UngroupedRun.Builds)
        /\ Returned =>
              /\ BuildsWithInputs = UngroupedRun.Builds
              /\ Storage.Local = UngroupedRun.Storage.Local
              /\ Storage.Complete = UngroupedRun.Storage.Complete
              /\ Storage.Modified = UngroupedRun.Storage.Modified
              /\ ExitCode = "Success" <=> UngroupedRun.Ok

\* C30 witness: a run over three agent groups built the three nodes and
\* copied an output to shared storage for a consumer in another group.
C30_Witness ==
    /\ InBuildAllNodes
    /\ Returned
    /\ Len(Groups) = 3
    /\ Len(BuildLog) = 3
    /\ \E i \in 1..Len(ArchiveLog) :
          /\ ArchiveLog[i].mustPushToShared
          /\ <<ArchiveLog[i].Node, ArchiveLog[i].OutputName>> \in DOMAIN Storage.Shared

\* The output tag names of every node of the graph.
GraphTags == UNION {Range(OutputNames[n]) : n \in NameToNode}

\* C31: when BuildSingleNode invokes the build logic of a node the mapping
\* has a key for every output tag name of every node of the graph; every
\* input tag of the node holds the files of its retrieved manifest, every
\* output tag of the node holds the empty set, and every other tag is null.
C31_TagMappingAtBuild ==
    pc = "Build" =>
        /\ DOMAIN TagNameToFileSet = GraphTags
        /\ \A t \in GraphTags :
              IF t \in Range(InputNames[Node])
              THEN /\ Retreive(Storage, OutputNameToNode[t], t).Found
                   /\ TagNameToFileSet[t] =
                         FileSet({ToFileReference(f) :
                                    f \in Retreive(Storage, OutputNameToNode[t], t).Manifest})
              ELSE IF t \in Range(OutputNames[Node])
              THEN TagNameToFileSet[t] = FileSet({})
              ELSE TagNameToFileSet[t] = Null

\* C31 witness: the build logic of a node is about to be invoked with files
\* in its input tag, while an output tag of its producer that it does not
\* consume and the output tag of its consumer are null.
C31_Witness ==
    /\ pc = "Build"
    /\ Node = "Package"
    /\ NameToNode = AllNodes
    /\ InputNames[Node] = <<"Binaries">>
    /\ TagNameToFileSet["Binaries"].Files # {}
    /\ TagNameToFileSet["Symbols"] = Null
    /\ TagNameToFileSet["Published"] = Null
    /\ TagNameToFileSet["Archive"] = FileSet({})

\* The nodes that list among their output names an input name of a node.
Producers(n) ==
    {m \in AllNodes : Range(OutputNames[m]) \cap Range(InputNames[n]) # {}}

\* The nodes of the selected graph that fail the local integrity check when
\* BuildAllNodes is called.
Stale ==
    {n \in Range(NodesToExecute) : ~CheckLocalIntegrity(StorageAtRun, n, OutputNames[n])}

\* The nodes of the selected graph that consume an output of a node,
\* directly or through other nodes.
Dependents(n) == {c \in Range(NodesToExecute) : n \in UpstreamNodes(c)}

\* C32: the InputDependencies of a node are the nodes that produce a tag
\* among its input names, and no node depends on itself, directly or
\* through other nodes: every dependency comes before the node in the
\* order.  So once the integrity pass is over every node that fails the
\* integrity check is cleaned, and so is every node of the selected graph
\* that consumes an output of a cleaned node, directly or through others.
C32_CleaningReachesConsumers ==
    /\ \A n \in AllNodes :
          /\ InputDependencies(n) = Producers(n)
          /\ \A d \in InputDependencies(n) : PositionOf(d) < PositionOf(n)
          /\ n \notin UNION {ReachableFrom({d}) : d \in InputDependencies(n)}
    /\ IntegrityPassOver =>
          /\ Stale \subseteq CleanedNodes
          /\ \A n \in CleanedNodes \cup Stale :
                /\ Dependents(n) \subseteq CleanedNodes
                /\ \A c \in Range(NodesToExecute) :
                      n \in InputDependencies(c) => c \in CleanedNodes

\* C32 witness: the integrity pass cleaned a node that was complete and
\* intact and consumes an output of a complete and intact node, which
\* consumes an output of a node that fails the integrity check.
C32_Witness ==
    /\ IntegrityPassOver
    /\ ~CheckLocalIntegrity(StorageAtRun, "Compile", OutputNames["Compile"])
    /\ CompleteAndIntact("Package")
    /\ CompleteAndIntact("Publish")
    /\ InputDependencies("Publish") = {"Package"}
    /\ InputDependencies("Package") = {"Compile"}
    /\ "Publish" \in CleanedNodes

\* Every node of the selected graph is marked complete and has a local
\* manifest for each of its outputs.
AllNodesComplete ==
    \A n \in NameToNode :
        /\ IsComplete(Storage, n)
        /\ \A t \in Range(OutputNames[n]) : <<n, t>> \in DOMAIN Storage.Local

\* C33: BuildAllNodes terminates, and when no build it invoked failed and
\* no retrieval failed it returns success with every node of the selected
\* graph marked complete and a local manifest for each of its outputs.
C33_TerminatesComplete ==
    InBuildAllNodes ~>
        (Returned /\ ((NoBuildFailed /\ Error # "MissingOutput") =>
                          (ExitCode = "Success" /\ AllNodesComplete)))

\* C33 witness: a run returned success after it built two nodes and passed
\* over a complete one, with the three nodes complete.
C33_Witness ==
    /\ InBuildAllNodes
    /\ Returned
    /\ ExitCode = "Success"
    /\ NameToNode = AllNodes
    /\ AllNodesComplete
    /\ Len(BuildLog) = 2
    /\ Marked # Storage.Complete

\* The manifests a storage tier holds for the outputs of a node.
OutputManifests(tier, n) == [k \in OutputKeys(n) \cap DOMAIN tier |-> tier[k]]

\* A node BuildAllNodes has no reason to touch: it was complete and intact
\* when BuildAllNodes was called, and the integrity pass cleaned none of the
\* nodes it depends on, directly or through other nodes.
UpToDate(n) ==
    /\ CompleteAndIntact(n)
    /\ UpstreamNodes(n) \cap CleanedNodes = {}

\* C34: BuildAllNodes leaves every up-to-date node of the selected graph as
\* it was: the completion marker stays, the local and the shared manifests
\* of its outputs are those of the call, its build logic is not invoked and
\* none of its outputs is archived.
C34_UpToDateNodesUntouched ==
    InBuildAllNodes =>
        \A n \in Range(NodesToExecute) :
            UpToDate(n) =>
                /\ IsComplete(Storage, n)
                /\ OutputManifests(Storage.Local, n) = OutputManifests(StorageAtRun.Local, n)
                /\ OutputManifests(Storage.Shared, n) = OutputManifests(StorageAtRun.Shared, n)
                /\ OutputKeys(n) \cap Storage.Modified = {}
                /\ n \notin Range(BuildLog)
                /\ n \notin ArchivedNodes
                /\ n \notin CleanedNodes

\* C34 witness: a run with a writable shared directory returned success
\* after it rebuilt and archived a node, and left alone an up-to-date node
\* whose manifests the shared directory does not hold.
C34_Witness ==
    /\ InBuildAllNodes
    /\ Returned
    /\ ExitCode = "Success"
    /\ ArchiveLog # <<>>
    /\ Storage.SharedDir
    /\ Storage.bWriteToSharedStorage
    /\ \E n \in Range(NodesToExecute) :
          /\ UpToDate(n)
          /\ OutputNames[n] # <<>>
          /\ OutputKeys(n) \cap DOMAIN Storage.Shared = {}

\* Nothing a storage held when the node was run has been removed from it.
NothingCleanedSinceRun ==
    /\ StorageAtRun.Complete \subseteq Storage.Complete
    /\ DOMAIN StorageAtRun.Local \subseteq DOMAIN Storage.Local
    /\ \A k \in DOMAIN StorageAtRun.Local :
          k \notin OutputKeys(SingleNode) => Storage.Local[k] = StorageAtRun.Local[k]
    /\ StorageAtRun.Modified \ OutputKeys(SingleNode) \subseteq Storage.Modified

\* C35: with -SingleNode=N there is no integrity pass: no node is cleaned,
\* and a node whose files were changed keeps its marker and manifests.
\* There is no completion check either: whether or not N was complete, once
\* its inputs are retrieved its build logic is invoked, and when that
\* succeeds each output of N is archived again and N is marked again.
C35_SingleNodeAlwaysBuilt ==
    RunningSingleNode =>
        /\ pc \notin {"CheckIntegrity", "ExecuteNodes"}
        /\ CleanedNodes = {}
        /\ NothingCleanedSinceRun
        /\ (Returned /\ Error # "MissingOutput") => BuildLog = <<SingleNode>>
        /\ (Returned /\ Error # "MissingOutput" /\ Behaviour[SingleNode].Ok) =>
              /\ ArchivedPairs = OutputPairs(SingleNode)
              /\ SingleNode \in Marked

\* C35 witness: a node that was complete and intact is run on its own and
\* is built and archived again, and a complete node that depends on a node
\* with no local manifests is still complete.
C35_Witness ==
    /\ RunningSingleNode
    /\ Returned
    /\ SingleNode = "Publish"
    /\ CompleteAndIntact("Publish")
    /\ BuildLog = <<"Publish">>
    /\ ArchivedPairs = OutputPairs("Publish")
    /\ ~CheckLocalIntegrity(StorageAtRun, "Compile", OutputNames["Compile"])
    /\ InputDependencies("Package") = {"Compile"}
    /\ IsComplete(Storage, "Package")

\* A configuration error Execute meets before it looks up the -SingleNode
\* name.
EarlierConfigurationError ==
    \/ MissingParameter
    \/ NotATask
    \/ MultipleHandlers
    \/ ~Args.bScriptReads
    \/ UnknownTarget
    \/ UnknownTrigger

\* C36: when the -SingleNode name is not a target or a node a target
\* depends on, directly or through other nodes, Execute returns failure and
\* nothing is printed, exported, built, archived or marked, with or without
\* -ListOnly and -Export; unless an earlier configuration error ended
\* Execute, the failure is that of the lookup, made in the graph already
\* culled to the targets.  The lookup fails in no other case.
C36_SingleNodeLookedUpAfterSelect ==
    /\ UnknownSingleNode =>
          /\ pc # "Run"
          /\ ~Executing
          /\ SingleNode = NoNode
          /\ Caller = "None"
          /\ BuildLog = <<>> /\ ArchiveLog = <<>> /\ Marked = {}
          /\ ~Printed.Called /\ ~Exported.Called
          /\ Returned => ExitCode = "Error_Unknown"
          /\ (Returned /\ ~EarlierConfigurationError) => Error = "UnknownSingleNode"
    /\ Error = "UnknownSingleNode" =>
          /\ UnknownSingleNode
          /\ NameToNode = ReachableFrom(RequestedNodes)
          /\ Args.SingleNodeName \notin NameToNode

\* C36 witness: Execute returned failure with -ListOnly and -Export for a
\* -SingleNode that the script defines and the targets do not depend on.
C36_Witness ==
    /\ Returned
    /\ ExitCode = "Error_Unknown"
    /\ Error = "UnknownSingleNode"
    /\ Args.SingleNodeName = "Publish"
    /\ Args.bListOnly /\ Args.bExport
    /\ NameToNode = {"Compile", "Package"}

\* The local state of a node in a storage: its marker, its manifests and
\* which of them have files that were changed.
LocalStateOf(S, n) ==
    [Complete |-> IsComplete(S, n),
     Local |-> OutputManifests(S.Local, n),
     Modified |-> OutputKeys(n) \cap S.Modified]

NoLocalState == [Complete |-> FALSE, Local |-> <<>>, Modified |-> {}]

\* The local state the clean requests leave of what the storage held when
\* Execute was entered.
CleanApplied ==
    /\ \A n \in CleanRequested : LocalStateOf(Storage, n) = NoLocalState
    /\ \A n \in AllNodes \ CleanRequested :
          LocalStateOf(Storage, n) = LocalStateOf(StorageAtEntry, n)
    /\ Storage.Shared = StorageAtEntry.Shared

\* C37: the clean requests are applied before the targets and the triggers
\* are resolved: until the storage is created it is as Execute found it,
\* and when the targets are about to be resolved the requested markers and
\* manifests are gone.  So when Execute returns failure for a target or a
\* trigger that is not in the graph, they have been removed.
C37_CleanedBeforeResolving ==
    /\ pc \in {"ParseParams", "FindAvailableTasks", "ReadScript", "CreateStorage"} =>
          Storage = StorageAtEntry
    /\ pc \in {"ResolveTargets", "CullGraph", "FindTriggers"} => CleanApplied
    /\ (Returned /\ Error \in {"UnknownTarget", "UnknownTrigger"}) =>
          /\ ExitCode = "Error_Unknown"
          /\ UnknownTarget \/ UnknownTrigger
          /\ CleanApplied

\* C37 witness: Execute returned failure for a trigger that is not in the
\* graph, and -Clean has removed the markers and manifests of three nodes
\* that were complete.
C37_Witness ==
    /\ Returned
    /\ ExitCode = "Error_Unknown"
    /\ Error = "UnknownTrigger"
    /\ Args.bClean
    /\ StorageAtEntry.Complete = AllNodes
    /\ Storage.Complete = {}
    /\ Storage.Local = <<>>
    /\ Storage # StorageAtEntry

\* The nodes the integrity pass has examined so far.
Examined ==
    {NodesToExecute[i] :
        i \in 1..(IF pc = "CheckIntegrity" THEN NodeIdx - 1 ELSE Len(NodesToExecute))}

\* The nodes of the selected graph that fail the integrity check or depend,
\* directly or through other nodes, on one that fails it.
StaleOrDependent == Stale \cup UNION {Dependents(n) : n \in Stale}

\* No node has been handed to BuildSingleNode yet.
NothingExecuted ==
    /\ Node = NoNode
    /\ BuildLog = <<>>
    /\ ArchiveLog = <<>>
    /\ Marked = {}

\* C38: while the integrity pass of BuildAllNodes runs no node is built,
\* archived or marked.  The pass only removes: until the first node is
\* executed, the local state of a cleaned node is empty, that of any other
\* node is as it was at the call, and the shared tier is as it was.  It
\* examines every node: once it is over the cleaned nodes are the nodes that
\* fail the integrity check and the nodes that depend on one, so the set is
\* closed under dependents within the selected graph.
C38_IntegrityPassFirst ==
    InBuildAllNodes =>
        /\ pc = "CheckIntegrity" => NothingExecuted
        /\ CleanedNodes \subseteq Range(NodesToExecute)
        /\ CleanedNodes = StaleOrDependent \cap Examined
        /\ \A n \in CleanedNodes : Dependents(n) \cap Examined \subseteq CleanedNodes
        /\ NothingExecuted =>
              /\ \A n \in AllNodes :
                    LocalStateOf(Storage, n) =
                        IF n \in CleanedNodes THEN NoLocalState
                        ELSE LocalStateOf(StorageAtRun, n)
              /\ Storage.Shared = StorageAtRun.Shared
        /\ Storage.Complete \ Marked \subseteq StorageAtRun.Complete \ CleanedNodes

\* C38 witness: the integrity pass is over and nothing is executed yet; it
\* left a complete node alone, cleaned a node whose files were changed, and
\* cleaned an intact node that depends on that one.
C38_Witness ==
    /\ InBuildAllNodes
    /\ pc = "ExecuteNodes"
    /\ NodeIdx = 1
    /\ NothingExecuted
    /\ NodesToExecute = NodeOrder
    /\ CompleteAndIntact("Compile")
    /\ IsComplete(Storage, "Compile")
    /\ IsComplete(StorageAtRun, "Package")
    /\ ~CheckLocalIntegrity(StorageAtRun, "Package", OutputNames["Package"])
    /\ CompleteAndIntact("Publish")
    /\ CleanedNodes = {"Package", "Publish"}
    /\ LocalStateOf(Storage, "Publish") = NoLocalState

\* The files the dictionary of tag name to file set holds for an output
\* name; none when it has no entry for the name.
FilesOf(OutputName) ==
    IF OutputName \in DOMAIN TagNameToFileSet THEN TagNameToFileSet[OutputName].Files ELSE {}

OutputFiles == UNION {FilesOf(t) : t \in Range(OutputNames[Node])}

\* The first output name of the node, in the order of OutputNames, whose
\* file set holds the file.
FirstOwner(File) ==
    OutputNames[Node][CHOOSE i \in 1..Len(OutputNames[Node]) :
                         /\ File \in FilesOf(OutputNames[Node][i])
                         /\ \A j \in 1..(i - 1) : File \notin FilesOf(OutputNames[Node][j])]

\* Some file is in the file sets of two of the node's outputs.
InTwoOutputs ==
    \E t1, t2 \in Range(OutputNames[Node]) : t1 # t2 /\ FilesOf(t1) \cap FilesOf(t2) # {}

\* FindFileToOutputNameMapping has returned.
MappingReturned == pc = "Done"

====
